---- MODULE Spec2Model ----
(***************************************************************************)
(* Model of the image-server request handler (package server, handler())   *)
(* and of the object store it talks to through storage.Client.             *)
(*                                                                         *)
(* Strings are sequences of tokens.  A token is one character (".", "/",   *)
(* "w", "h", a digit, a sign) or a run of letters that contains neither a  *)
(* dot nor a slash ("a", "png", "original", ...).  Every string operation  *)
(* of the handler (regexp match, strings.Split, fmt.Sprintf, strconv.Atoi, *)
(* filepath.Join) is computed on these sequences.                          *)
(***************************************************************************)
EXTENDS Integers, Sequences, FiniteSets, TLC

VARIABLES
    load,         \* the traffic of this run: the request slots in use and the requests that may arrive
    bucket,       \* the object store: key -> object, for the keys that exist
    deletes,      \* number of objects removed so far by other clients of the bucket
    pc,           \* per request: position in handler()
    path,         \* per request: r.PathValue(slug)
    query,        \* per request: r.URL.Query(), restricted to w and h
    originalKey,  \* per request: local originalKey
    width,        \* per request: local width
    height,       \* per request: local height
    resizedKey,   \* per request: local resizedKey
    contentType,  \* per request: contentType returned by DownloadObject
    buf,          \* per request: the encoded bytes.Buffer
    calls,        \* per request: the storage calls and transforms made, in order
    resp,         \* per request: the responses written to the ResponseWriter
    logs,         \* per request: the messages given to logger.Error
    after,        \* history, per request: it arrived after a miss had stored its variant, no deletion since
    cancelled,    \* per request: its context r.Context() is done
    rivals,       \* history, per request: the same requests in flight when it arrived, its key uncached
    kin,          \* key derivation study: the two inputs
    kout,         \* key derivation study: the keys derived from them
    boot          \* the process: position in main(), its environment, what it has set up

vars == <<load, bucket, deletes, pc, path, query, originalKey, width, height, resizedKey,
          contentType, buf, calls, resp, logs, after, rivals, cancelled, kin, kout, boot>>

hvars == <<load, bucket, deletes, pc, path, query, originalKey, width, height, resizedKey,
           contentType, buf, calls, resp, logs, after, rivals, cancelled>>

\* what no step of a handler changes
kvars == <<kin, kout, boot>>

(***************************************************************************)
(* Bounds                                                                  *)
(***************************************************************************)
NumReq == 2
MaxDeletes == 1
MaxServed == 2
MaxOps == 3

Reqs == 1..NumReq

(***************************************************************************)
(* Configuration and constants of the program                              *)
(***************************************************************************)
BucketName == <<"bkt">>
FolderOriginal == <<"original">>
FolderResized == <<"resized">>

errStrInvalidImagePath == "invalid image path"
queryWidth == "w"
queryHeight == "h"

StatusFound == 302
StatusSeeOther == 303
StatusBadRequest == 400
StatusForbidden == 403
StatusNotFound == 404
StatusRequestEntityTooLarge == 413
StatusInternalServerError == 500

StatusText(code) ==
    CASE code = 400 -> "Bad Request"
      [] code = 403 -> "Forbidden"
      [] code = 404 -> "Not Found"
      [] code = 413 -> "Request Entity Too Large"
      [] code = 500 -> "Internal Server Error"
      [] OTHER -> ""

ErrNotFound == StatusText(StatusNotFound)
ErrForbidden == StatusText(StatusForbidden)
ErrBadRequest == StatusText(StatusBadRequest)
\* errors of the SDK that the adapter passes on as they are, by message
OtherErrors == {"connection reset", "AccessDenied: arn:aws:s3:::bkt"}
\* errors of image.Decode and of the encoders, by message
DecodeError == "image: unknown format"
EncodeErrors == {"short write", "png: invalid format"}
\* any of OtherErrors, whatever its message
ErrOther == "backend error"
\* what errors.Is tells apart: the three sentinel errors and the rest
Kind(err) == IF err \in OtherErrors THEN ErrOther ELSE err

(***************************************************************************)
(* String helpers                                                          *)
(***************************************************************************)
Digits == <<"0", "1", "2", "3", "4", "5", "6", "7", "8", "9">>

\* fmt's %d of a non-negative int
RECURSIVE Itoa(_)
Itoa(n) == IF n < 10 THEN <<Digits[n + 1]>>
           ELSE Itoa(n \div 10) \o <<Digits[(n % 10) + 1]>>

IsDigit(c) == \E i \in 1..10 : Digits[i] = c
DigitVal(c) == (CHOOSE i \in 1..10 : Digits[i] = c) - 1

RECURSIVE ParseDigits(_, _)
ParseDigits(s, acc) == IF s = <<>> THEN acc
                       ELSE ParseDigits(Tail(s), 10 * acc + DigitVal(Head(s)))

\* strconv.Atoi: optional sign, then at least one decimal digit
Atoi(s) ==
    LET signed == s # <<>> /\ Head(s) \in {"+", "-"}
        body == IF signed THEN Tail(s) ELSE s
        ok == body # <<>> /\ \A i \in 1..Len(body) : IsDigit(body[i])
    IN  IF ~ok THEN [err |-> TRUE, val |-> 0]
        ELSE [err |-> FALSE,
              val |-> IF signed /\ Head(s) = "-" THEN 0 - ParseDigits(body, 0)
                      ELSE ParseDigits(body, 0)]

\* strings.Split(s, sep) for a one-character separator
RECURSIVE Split(_, _)
Split(s, sep) ==
    IF \E i \in 1..Len(s) : s[i] = sep
    THEN LET i == CHOOSE i \in 1..Len(s) : s[i] = sep /\ \A j \in 1..(i - 1) : s[j] # sep
         IN  <<SubSeq(s, 1, i - 1)>> \o Split(SubSeq(s, i + 1, Len(s)), sep)
    ELSE <<s>>

RECURSIVE JoinWith(_, _)
JoinWith(elems, sep) ==
    IF elems = <<>> THEN <<>>
    ELSE IF Len(elems) = 1 THEN elems[1]
    ELSE elems[1] \o <<sep>> \o JoinWith(Tail(elems), sep)

\* the element stack of filepath.Clean for a relative path: empty and "."
\* elements are dropped, ".." removes the element before it
RECURSIVE CleanElems(_, _)
CleanElems(elems, acc) ==
    IF elems = <<>> THEN acc
    ELSE LET e == Head(elems)
         IN  IF e = <<>> \/ e = <<".">> THEN CleanElems(Tail(elems), acc)
             ELSE IF e = <<".", ".">> /\ acc # <<>> /\ acc[Len(acc)] # <<".", ".">>
                  THEN CleanElems(Tail(elems), SubSeq(acc, 1, Len(acc) - 1))
             ELSE CleanElems(Tail(elems), Append(acc, e))

Clean(p) == LET e == CleanElems(Split(p, "/"), <<>>)
            IN  IF e = <<>> THEN <<".">> ELSE JoinWith(e, "/")

\* filepath.Join: empty elements are ignored, the rest joined by "/" and cleaned
Join(elems) ==
    LET nonEmpty == SelectSeq(elems, LAMBDA e : e # <<>>)
    IN  IF nonEmpty = <<>> THEN <<>> ELSE Clean(JoinWith(nonEmpty, "/"))

(***************************************************************************)
(* Key scheme                                                              *)
(***************************************************************************)
Exts == {"jpeg", "jpg", "png"}

\* the pattern without the list of extensions: ^[^/]+\.[^/.]+$
imagePathRegexAnyExt(p) ==
    /\ Len(p) >= 3
    /\ p[Len(p)] \notin {".", "/"}
    /\ p[Len(p) - 1] = "."
    /\ \A i \in 1..(Len(p) - 2) : p[i] # "/"

\* imagePathRegex = ^[^/]+\.(jpeg|jpg|png)$
imagePathRegex(p) ==
    /\ Len(p) >= 3
    /\ p[Len(p)] \in Exts
    /\ p[Len(p) - 1] = "."
    /\ \A i \in 1..(Len(p) - 2) : p[i] # "/"

splitPath(p) == Split(p, ".")
imageName(p) == splitPath(p)[1]
imageFormat(p) == splitPath(p)[2]

OriginalKey(p) == Join(<<FolderOriginal, p>>)

\* the format string without the h between the two numbers
SprintfNoSeparator(w, h, format) == <<"w">> \o Itoa(w) \o Itoa(h) \o <<".">> \o format

\* fmt.Sprintf("w%dh%d.%s", width, height, imageFormat)
Sprintf(w, h, format) == <<"w">> \o Itoa(w) \o <<"h">> \o Itoa(h) \o <<".">> \o format

ResizedKey(p, w, h) == Join(<<FolderResized, imageName(p), Sprintf(w, h, imageFormat(p))>>)

\* S3Client.ObjectURL
ObjectURL(objectKey) == <<"https://", BucketName[1], ".s3.ca-west-1.amazonaws.com/">> \o objectKey

(***************************************************************************)
(* The object store behind storage.Client                                  *)
(***************************************************************************)
\* image bytes: the format image.Decode detects in them ("" when they do not
\* decode) and the pixel dimensions
Image(format, w, h) == [format |-> format, w |-> w, h |-> h]
EmptyBuf == Image("", 0, 0)
\* a stored object; madeFor remembers the (path, width, height) of the request
\* whose upload stored it, <<>> for an object put there by someone else
Object(body, ctype) == [body |-> body, contentType |-> ctype, madeFor |-> <<>>]

Exists(b, key) == key \in DOMAIN b

\* the error of a HeadObject that S3 answered with 404
ErrHeadNotFound == "api error NotFound: Not Found"

\* sc.client.HeadObject: nil, a ResponseError with the HTTP status of the
\* answer (404 for an absent key), or an error without an answer (status 0)
HeadResponse(b, key) ==
    (IF Exists(b, key) THEN {[code |-> 200, err |-> ""]}
     ELSE {[code |-> StatusNotFound, err |-> ErrHeadNotFound]})
    \cup {[code |-> IF e = "connection reset" THEN 0 ELSE StatusForbidden, err |-> e] :
             e \in OtherErrors}

\* CheckObject without the test for a 404: every error of HeadObject is returned
CheckObjectStrict(b, key) ==
    {[ok |-> r.err = "", err |-> r.err] : r \in HeadResponse(b, key)}

\* S3Client.CheckObject: (true, nil), (false, nil) on a 404, (false, err) otherwise
CheckObject(b, key) ==
    {IF r.err = "" THEN [ok |-> TRUE, err |-> ""]
     ELSE IF r.code = StatusNotFound THEN [ok |-> FALSE, err |-> ""]
     ELSE [ok |-> FALSE, err |-> r.err] : r \in HeadResponse(b, key)}

\* S3Client.DownloadObject: the object, ErrNotFound, ErrForbidden or another error
DownloadObject(b, key) ==
    (IF Exists(b, key)
     THEN {[err |-> "", body |-> b[key].body, contentType |-> b[key].contentType]}
     ELSE {[err |-> ErrNotFound, body |-> EmptyBuf, contentType |-> ""]})
    \cup {[err |-> e, body |-> EmptyBuf, contentType |-> ""] : e \in {ErrForbidden} \cup OtherErrors}

\* S3Client.UploadObject: nil, ErrBadRequest or another error
UploadObject == {"", ErrBadRequest} \cup OtherErrors

\* a PutObject that stores the object under another key than the one given
PutElsewhere(b, key, body, ctype, for) ==
    [k \in DOMAIN b \cup {key \o <<".part">>} |->
        IF k = key \o <<".part">> THEN [Object(body, ctype) EXCEPT !.madeFor = for] ELSE b[k]]

\* a PutObject whose input has no ContentType
PutUntyped(b, key, body, ctype, for) ==
    [k \in DOMAIN b \cup {key} |->
        IF k = key THEN [Object(body, "") EXCEPT !.madeFor = for] ELSE b[k]]

\* the bucket after a successful PutObject
Put(b, key, body, ctype, for) ==
    [k \in DOMAIN b \cup {key} |->
        IF k = key THEN [Object(body, ctype) EXCEPT !.madeFor = for] ELSE b[k]]

\* a storage call made with context.Background(): it ignores the cancellation
CallsRegardless(ctxDone, outcomes) == outcomes

\* the outcomes of a storage call made with the request's context: once the
\* context is done the call does not happen and returns an error of the SDK,
\* which the adapter passes on
WithContext(ctxDone, outcomes) ==
    IF ctxDone THEN {o \in outcomes : o.err \in OtherErrors} ELSE outcomes

\* the bucket after a DeleteObject; what was stored for whom is forgotten
Remove(b, key) == [k \in DOMAIN b \ {key} |-> [b[k] EXCEPT !.madeFor = <<>>]]

(***************************************************************************)
(* Image transform                                                         *)
(***************************************************************************)
\* image.Decode with the jpeg and png decoders registered
Decode(body) == [err |-> body.format \notin {"jpeg", "png"}, format |-> body.format]

\* gift.Resize(width, height, ...).Bounds: a zero dimension keeps the aspect ratio
Resize(body, w, h) ==
    LET round(a, d) == IF (2 * a + d) \div (2 * d) < 1 THEN 1 ELSE (2 * a + d) \div (2 * d)
    IN  IF w = 0 THEN Image(body.format, round(h * body.w, body.h), h)
        ELSE IF h = 0 THEN Image(body.format, w, round(w * body.h, body.w))
        ELSE Image(body.format, w, h)

\* a handler that always encodes with png.Encode
EncodeAlwaysPng(format, dst) == Image("png", dst.w, dst.h)

\* the switch on the decoded format: jpeg.Encode, png.Encode, or nothing written
Encode(format, dst) ==
    IF format \in {"jpeg", "png"} THEN Image(format, dst.w, dst.h) ELSE EmptyBuf

(***************************************************************************)
(* Responses                                                               *)
(***************************************************************************)
\* http.Error(w, msg, code)
Error(msg, code) == [status |-> code, body |-> msg, location |-> <<>>]
\* http.Redirect(w, r, url, code)
Redirect(url, code) == [status |-> code, body |-> "", location |-> url]

\* the query checks without the <= 0 tests: a zero or negative w or h is taken
\* as if the parameter were omitted
ParseQueryLenient(q) ==
    LET has(k) == k \in DOMAIN q
        qw == IF has(queryWidth) THEN Atoi(q[queryWidth]) ELSE [err |-> FALSE, val |-> 0]
        qh == IF has(queryHeight) THEN Atoi(q[queryHeight]) ELSE [err |-> FALSE, val |-> 0]
        pos(n) == IF n > 0 THEN n ELSE 0
    IN  IF has(queryWidth) /\ qw.err
        THEN [err |-> "failed converting w into integer", width |-> 0, height |-> 0]
        ELSE IF has(queryHeight) /\ qh.err
        THEN [err |-> "failed converting h into integer", width |-> pos(qw.val), height |-> 0]
        ELSE [err |-> "", width |-> pos(qw.val), height |-> pos(qh.val)]

\* the query checks of handler(): w first, then h
ParseQuery(q) ==
    LET has(k) == k \in DOMAIN q
        qw == IF has(queryWidth) THEN Atoi(q[queryWidth]) ELSE [err |-> FALSE, val |-> 0]
        qh == IF has(queryHeight) THEN Atoi(q[queryHeight]) ELSE [err |-> FALSE, val |-> 0]
    IN  IF has(queryWidth) /\ qw.err
        THEN [err |-> "failed converting w into integer", width |-> 0, height |-> 0]
        ELSE IF has(queryWidth) /\ qw.val <= 0
        THEN [err |-> "if specified, w must be larger than 0", width |-> 0, height |-> 0]
        ELSE IF has(queryHeight) /\ qh.err
        THEN [err |-> "failed converting h into integer", width |-> qw.val, height |-> 0]
        ELSE IF has(queryHeight) /\ qh.val <= 0
        THEN [err |-> "if specified, h must be larger than 0", width |-> qw.val, height |-> 0]
        ELSE [err |-> "", width |-> qw.val, height |-> qh.val]

(***************************************************************************)
(* Requests and initial buckets explored                                   *)
(***************************************************************************)
Paths == {<<"a", ".", "png">>, <<"a", ".", "jpg">>, <<"a", ".", "gif">>, <<"asdf">>}
QVals == {<<"2">>, <<"0">>, <<"-", "2">>, <<"x">>}
Queries == UNION {[S -> QVals] : S \in SUBSET {queryWidth, queryHeight}}
Incoming(pth, q) == [path |-> pth, query |-> q]

PngPath == <<"a", ".", "png">>
JpgPath == <<"a", ".", "jpg">>
PngOriginal == Object(Image("png", 4, 2), "image/png")
JpgOriginal == Object(Image("jpeg", 4, 2), "image/jpeg")
BadOriginal == Object(Image("", 0, 0), "text/plain")
PngVariant == Object(Image("png", 2, 1), "image/png")

\* one client at a time, any of the requests above
SerialLoad ==
    [slots |-> {1},
     menu |-> {Incoming(pth, q) : pth \in Paths, q \in Queries},
     buckets |->
        { <<>>,
          (OriginalKey(PngPath) :> PngOriginal),
          (OriginalKey(PngPath) :> PngOriginal) @@ (OriginalKey(JpgPath) :> JpgOriginal),
          (OriginalKey(PngPath) :> PngOriginal) @@ (ResizedKey(PngPath, 2, 0) :> PngVariant),
          (ResizedKey(PngPath, 2, 0) :> PngVariant),
          (OriginalKey(PngPath) :> BadOriginal) }]

\* concurrent clients asking for the same few things
ConcurrentLoad ==
    [slots |-> Reqs,
     menu |-> {Incoming(PngPath, q) : q \in {<<>>, [w |-> <<"2">>]}},
     buckets |->
        { (OriginalKey(PngPath) :> PngOriginal),
          (OriginalKey(PngPath) :> PngOriginal) @@ (ResizedKey(PngPath, 2, 0) :> PngVariant) }]

Loads == {SerialLoad, ConcurrentLoad}

\* one client at a time, one request of each kind: bad path, no query, bad
\* query, resize; the original absent, present or not an image
SteadyLoad ==
    [slots |-> {1},
     menu |-> {Incoming(pth, q) : pth \in {PngPath, <<"a", ".", "gif">>},
                                  q \in {<<>>, [w |-> <<"2">>], [h |-> <<"x">>]}},
     buckets |->
        { <<>>,
          (OriginalKey(PngPath) :> PngOriginal),
          (OriginalKey(PngPath) :> BadOriginal) }]

\* one client at a time asking for variants; the original under a.png holds
\* PNG bytes or JPEG bytes, the one under a.jpg JPEG bytes
MixedLoad ==
    [slots |-> {1},
     menu |-> {Incoming(pth, q) : pth \in {PngPath, JpgPath},
                                  q \in {[w |-> <<"2">>], [h |-> <<"1">>],
                                         [w |-> <<"2">>, h |-> <<"2">>]}},
     buckets |->
        { (OriginalKey(PngPath) :> PngOriginal) @@ (OriginalKey(JpgPath) :> JpgOriginal),
          (OriginalKey(PngPath) :> JpgOriginal) }]

NoKey == <<>>

(***************************************************************************)
(* handler()                                                               *)
(***************************************************************************)
Call(op, key, res) == [op |-> op, key |-> key, res |-> res]

\* the request ends with the logged message as the body of the response
FinishLeaking(p, r, n) ==
    /\ pc' = [pc EXCEPT ![p] = "done"]
    /\ resp' = [resp EXCEPT ![p] = Append(@, IF n = <<>> THEN r ELSE [r EXCEPT !.body = n[1]])]
    /\ logs' = [logs EXCEPT ![p] = @ \o n]

\* the request ends without anything written to the ResponseWriter
FinishSilent(p, r, n) ==
    /\ pc' = [pc EXCEPT ![p] = "done"]
    /\ resp' = resp
    /\ logs' = [logs EXCEPT ![p] = @ \o n]

\* the request ends with every error response logged, not only the 500s
FinishLoggingAll(p, r, n) ==
    /\ pc' = [pc EXCEPT ![p] = "done"]
    /\ resp' = [resp EXCEPT ![p] = Append(@, r)]
    /\ logs' = [logs EXCEPT ![p] = @ \o (IF n = <<>> /\ r.status >= 400 THEN <<r.body>> ELSE n)]

\* the request ends: one response is written, the messages n were logged
Finish(p, r, n) ==
    /\ pc' = [pc EXCEPT ![p] = "done"]
    /\ resp' = [resp EXCEPT ![p] = Append(@, r)]
    /\ logs' = [logs EXCEPT ![p] = @ \o n]

InternalError == Error(StatusText(StatusInternalServerError), StatusInternalServerError)

\* the request asks for a resized image
AsksResize(pth, q) ==
    /\ imagePathRegex(pth)
    /\ ParseQuery(q).err = ""
    /\ ~(ParseQuery(q).width = 0 /\ ParseQuery(q).height = 0)

\* a cache miss for this very (path, w, h) has stored its result in the bucket,
\* and nothing was deleted since
Resolved(b, pth, q) ==
    /\ AsksResize(pth, q)
    /\ \E k \in DOMAIN b :
           b[k].madeFor = <<pth, ParseQuery(q).width, ParseQuery(q).height>>

\* the bucket holds nothing at the resized key of this request
Uncached(b, pth, q) ==
    /\ AsksResize(pth, q)
    /\ ~Exists(b, ResizedKey(pth, ParseQuery(q).width, ParseQuery(q).height))

\* a request arrives; the path is matched against imagePathRegex
Request(p) ==
    /\ pc[p] = "idle"
    /\ p \in load.slots
    /\ \E in \in load.menu :
        LET pth == in.path
            q == in.query
        IN
        /\ path' = [path EXCEPT ![p] = pth]
        /\ query' = [query EXCEPT ![p] = q]
        /\ after' = [after EXCEPT ![p] = Resolved(bucket, pth, q)]
        /\ rivals' = [rivals EXCEPT ![p] =
               IF Uncached(bucket, pth, q)
               THEN {o \in Reqs : /\ pc[o] \notin {"idle", "done"}
                                  /\ path[o] = pth
                                  /\ ParseQuery(query[o]) = ParseQuery(q)}
               ELSE {}]
        /\ IF ~imagePathRegex(pth)
           THEN /\ Finish(p, Error(errStrInvalidImagePath, StatusBadRequest), <<>>)
                /\ UNCHANGED originalKey
           ELSE /\ originalKey' = [originalKey EXCEPT ![p] = OriginalKey(pth)]
                /\ pc' = [pc EXCEPT ![p] = "checkOriginal"]
                /\ UNCHANGED <<resp, logs>>
    /\ UNCHANGED <<load, bucket, deletes, width, height, resizedKey, contentType, buf, calls>>
    /\ UNCHANGED <<cancelled, kvars>>

\* a handler whose response state outlives the request: what was written for
\* the request before is still there when the next one is answered
ReturnKeepingResponse(p) ==
    /\ pc[p] = "done"
    /\ pc' = [pc EXCEPT ![p] = "idle"]
    /\ path' = [path EXCEPT ![p] = <<>>]
    /\ query' = [query EXCEPT ![p] = <<>>]
    /\ originalKey' = [originalKey EXCEPT ![p] = NoKey]
    /\ width' = [width EXCEPT ![p] = 0]
    /\ height' = [height EXCEPT ![p] = 0]
    /\ resizedKey' = [resizedKey EXCEPT ![p] = NoKey]
    /\ contentType' = [contentType EXCEPT ![p] = ""]
    /\ buf' = [buf EXCEPT ![p] = EmptyBuf]
    /\ calls' = [calls EXCEPT ![p] = <<>>]
    /\ logs' = [logs EXCEPT ![p] = <<>>]
    /\ after' = [after EXCEPT ![p] = FALSE]
    /\ rivals' = [rivals EXCEPT ![p] = {}]
    /\ cancelled' = [cancelled EXCEPT ![p] = FALSE]
    /\ UNCHANGED <<load, bucket, deletes, resp>>
    /\ UNCHANGED kvars

\* the handler has returned: nothing of the request is kept
Return(p) ==
    /\ pc[p] = "done"
    /\ pc' = [pc EXCEPT ![p] = "idle"]
    /\ path' = [path EXCEPT ![p] = <<>>]
    /\ query' = [query EXCEPT ![p] = <<>>]
    /\ originalKey' = [originalKey EXCEPT ![p] = NoKey]
    /\ width' = [width EXCEPT ![p] = 0]
    /\ height' = [height EXCEPT ![p] = 0]
    /\ resizedKey' = [resizedKey EXCEPT ![p] = NoKey]
    /\ contentType' = [contentType EXCEPT ![p] = ""]
    /\ buf' = [buf EXCEPT ![p] = EmptyBuf]
    /\ calls' = [calls EXCEPT ![p] = <<>>]
    /\ resp' = [resp EXCEPT ![p] = <<>>]
    /\ logs' = [logs EXCEPT ![p] = <<>>]
    /\ after' = [after EXCEPT ![p] = FALSE]
    /\ rivals' = [rivals EXCEPT ![p] = {}]
    /\ cancelled' = [cancelled EXCEPT ![p] = FALSE]
    /\ UNCHANGED <<load, bucket, deletes>>
    /\ UNCHANGED kvars

\* handler() without the return after the 404: an absent original is treated
\* like a present one
CheckOriginalIgnoresAbsence(p) ==
    /\ pc[p] = "checkOriginal"
    /\ calls' = [calls EXCEPT ![p] =
           Append(@, Call("check", originalKey[p],
                          IF Exists(bucket, originalKey[p]) THEN "true" ELSE "false"))]
    /\ Finish(p, Redirect(ObjectURL(originalKey[p]), StatusSeeOther), <<>>)
    /\ UNCHANGED <<load, bucket, deletes, path, query, originalKey, width, height, resizedKey,
                   contentType, buf, after, rivals>>
    /\ UNCHANGED <<cancelled, kvars>>

\* handler() without the redirect to the original: a request with neither w
\* nor h goes on to the resized key w0h0
CheckOriginalNoFastPath(p) ==
    /\ pc[p] = "checkOriginal"
    /\ Exists(bucket, originalKey[p])
    /\ ParseQuery(query[p]).err = ""
    /\ calls' = [calls EXCEPT ![p] = Append(@, Call("check", originalKey[p], "true"))]
    /\ width' = [width EXCEPT ![p] = ParseQuery(query[p]).width]
    /\ height' = [height EXCEPT ![p] = ParseQuery(query[p]).height]
    /\ resizedKey' = [resizedKey EXCEPT ![p] = ResizedKey(path[p], width'[p], height'[p])]
    /\ pc' = [pc EXCEPT ![p] = "checkResized"]
    /\ UNCHANGED <<load, bucket, deletes, path, query, originalKey, contentType, buf, resp, logs,
                   after, rivals>>
    /\ UNCHANGED <<cancelled, kvars>>

\* handler() with the query checks moved before CheckObject on the original key
CheckOriginalQueryFirst(p) ==
    /\ pc[p] = "checkOriginal"
    /\ LET pq == ParseQuery(query[p])
       IN  IF pq.err # ""
           THEN /\ Finish(p, Error(pq.err, StatusBadRequest), <<>>)
                /\ UNCHANGED <<calls, width, height, resizedKey>>
           ELSE \E out \in WithContext(cancelled[p], CheckObject(bucket, originalKey[p])) :
                /\ calls' = [calls EXCEPT ![p] =
                       Append(@, Call("check", originalKey[p],
                                      IF out.err # "" THEN "error"
                                      ELSE IF out.ok THEN "true" ELSE "false"))]
                /\ IF out.err # ""
                   THEN /\ Finish(p, InternalError, <<out.err>>)
                        /\ UNCHANGED <<width, height, resizedKey>>
                   ELSE IF ~out.ok
                   THEN /\ Finish(p, Error(StatusText(StatusNotFound), StatusNotFound), <<>>)
                        /\ UNCHANGED <<width, height, resizedKey>>
                   ELSE /\ width' = [width EXCEPT ![p] = pq.width]
                        /\ height' = [height EXCEPT ![p] = pq.height]
                        /\ IF pq.width = 0 /\ pq.height = 0
                           THEN /\ Finish(p, Redirect(ObjectURL(originalKey[p]), StatusSeeOther), <<>>)
                                /\ UNCHANGED resizedKey
                           ELSE /\ resizedKey' = [resizedKey EXCEPT ![p] =
                                       ResizedKey(path[p], pq.width, pq.height)]
                                /\ pc' = [pc EXCEPT ![p] = "checkResized"]
                                /\ UNCHANGED <<resp, logs>>
    /\ UNCHANGED <<load, bucket, deletes, path, query, originalKey, contentType, buf, after, rivals>>
    /\ UNCHANGED <<cancelled, kvars>>

\* CheckObject on the original key, then the query checks and the redirect to
\* the original when neither dimension is requested
CheckOriginal(p) ==
    /\ pc[p] = "checkOriginal"
    /\ \E out \in WithContext(cancelled[p], CheckObject(bucket, originalKey[p])) :
        /\ calls' = [calls EXCEPT ![p] =
               Append(@, Call("check", originalKey[p],
                              IF out.err # "" THEN "error" ELSE IF out.ok THEN "true" ELSE "false"))]
        /\ IF out.err # ""
           THEN /\ Finish(p, InternalError, <<out.err>>)
                /\ UNCHANGED <<width, height, resizedKey>>
           ELSE IF ~out.ok
           THEN /\ Finish(p, Error(StatusText(StatusNotFound), StatusNotFound), <<>>)
                /\ UNCHANGED <<width, height, resizedKey>>
           ELSE LET pq == ParseQuery(query[p])
                IN  /\ width' = [width EXCEPT ![p] = pq.width]
                    /\ height' = [height EXCEPT ![p] = pq.height]
                    /\ IF pq.err # ""
                       THEN /\ Finish(p, Error(pq.err, StatusBadRequest), <<>>)
                            /\ UNCHANGED resizedKey
                       ELSE IF pq.width = 0 /\ pq.height = 0
                       THEN /\ Finish(p, Redirect(ObjectURL(originalKey[p]), StatusSeeOther), <<>>)
                            /\ UNCHANGED resizedKey
                       ELSE /\ resizedKey' = [resizedKey EXCEPT ![p] =
                                   ResizedKey(path[p], pq.width, pq.height)]
                            /\ pc' = [pc EXCEPT ![p] = "checkResized"]
                            /\ UNCHANGED <<resp, logs>>
    /\ UNCHANGED <<load, bucket, deletes, path, query, originalKey, contentType, buf, after, rivals>>
    /\ UNCHANGED <<cancelled, kvars>>

\* handler() without the return on a hit: the image is resized again
CheckResizedNoShortCircuit(p) ==
    /\ pc[p] = "checkResized"
    /\ calls' = [calls EXCEPT ![p] =
           Append(@, Call("check", resizedKey[p],
                          IF Exists(bucket, resizedKey[p]) THEN "true" ELSE "false"))]
    /\ pc' = [pc EXCEPT ![p] = "download"]
    /\ UNCHANGED <<load, bucket, deletes, path, query, originalKey, width, height, resizedKey,
                   contentType, buf, resp, logs, after, rivals>>
    /\ UNCHANGED <<cancelled, kvars>>

\* a handler that asks again when CheckObject on the resized key fails
CheckResizedRetrying(p) ==
    /\ pc[p] = "checkResized"
    /\ \E out \in WithContext(cancelled[p], CheckObject(bucket, resizedKey[p])) :
        /\ calls' = [calls EXCEPT ![p] =
               Append(@, Call("check", resizedKey[p],
                              IF out.err # "" THEN "error" ELSE IF out.ok THEN "true" ELSE "false"))]
        /\ IF out.err # ""
           THEN UNCHANGED <<pc, resp, logs>>
           ELSE IF out.ok
           THEN Finish(p, Redirect(ObjectURL(resizedKey[p]), StatusSeeOther), <<>>)
           ELSE /\ pc' = [pc EXCEPT ![p] = "download"]
                /\ UNCHANGED <<resp, logs>>
    /\ UNCHANGED <<load, bucket, deletes, path, query, originalKey, width, height, resizedKey,
                   contentType, buf, after, rivals>>
    /\ UNCHANGED <<cancelled, kvars>>

\* CheckObject on the resized key; a hit redirects to it
CheckResized(p) ==
    /\ pc[p] = "checkResized"
    /\ \E out \in WithContext(cancelled[p], CheckObject(bucket, resizedKey[p])) :
        /\ calls' = [calls EXCEPT ![p] =
               Append(@, Call("check", resizedKey[p],
                              IF out.err # "" THEN "error" ELSE IF out.ok THEN "true" ELSE "false"))]
        /\ IF out.err # ""
           THEN Finish(p, InternalError, <<out.err>>)
           ELSE IF out.ok
           THEN Finish(p, Redirect(ObjectURL(resizedKey[p]), StatusSeeOther), <<>>)
           ELSE /\ pc' = [pc EXCEPT ![p] = "download"]
                /\ UNCHANGED <<resp, logs>>
    /\ UNCHANGED <<load, bucket, deletes, path, query, originalKey, width, height, resizedKey,
                   contentType, buf, after, rivals>>
    /\ UNCHANGED <<cancelled, kvars>>

\* handler() without the ErrNotFound and ErrForbidden cases: every download
\* failure is a 500
DownloadErrorsAlike(p) ==
    /\ pc[p] = "download"
    /\ \E out \in WithContext(cancelled[p], DownloadObject(bucket, originalKey[p])) :
        LET dec == Decode(out.body)
            downloaded == Call("download", originalKey[p], IF out.err = "" THEN "ok" ELSE Kind(out.err))
            decoded == Call("decode", NoKey, IF dec.err THEN "error" ELSE "ok")
        IN  /\ calls' = [calls EXCEPT ![p] =
                   IF out.err # "" THEN Append(@, downloaded)
                   ELSE IF dec.err THEN @ \o <<downloaded, decoded>>
                   ELSE @ \o <<downloaded, decoded, Call("transform", NoKey, "ok"),
                               Call("encode", NoKey, "ok")>>]
            /\ IF out.err # ""
               THEN /\ Finish(p, InternalError, <<out.err>>)
                    /\ UNCHANGED <<contentType, buf>>
               ELSE IF dec.err
               THEN /\ Finish(p, InternalError, <<DecodeError>>)
                    /\ contentType' = [contentType EXCEPT ![p] = out.contentType]
                    /\ UNCHANGED buf
               ELSE /\ contentType' = [contentType EXCEPT ![p] = out.contentType]
                    /\ buf' = [buf EXCEPT ![p] =
                           Encode(dec.format, Resize(out.body, width[p], height[p]))]
                    /\ pc' = [pc EXCEPT ![p] = "upload"]
                    /\ UNCHANGED <<resp, logs>>
    /\ UNCHANGED <<load, bucket, deletes, path, query, originalKey, width, height, resizedKey,
                   after, rivals>>
    /\ UNCHANGED <<cancelled, kvars>>

\* DownloadObject on the original key, then decode, resize and encode
Download(p) ==
    /\ pc[p] = "download"
    /\ \E out \in WithContext(cancelled[p], DownloadObject(bucket, originalKey[p])), encErr \in {""} \cup EncodeErrors :
        LET dec == Decode(out.body)
            downloaded == Call("download", originalKey[p], IF out.err = "" THEN "ok" ELSE Kind(out.err))
            decoded == Call("decode", NoKey, IF dec.err THEN "error" ELSE "ok")
            resized == Call("transform", NoKey, "ok")
            encoded == Call("encode", NoKey, IF encErr # "" THEN "error" ELSE "ok")
        IN  /\ calls' = [calls EXCEPT ![p] =
                   IF out.err # "" THEN Append(@, downloaded)
                   ELSE IF dec.err THEN @ \o <<downloaded, decoded>>
                   ELSE @ \o <<downloaded, decoded, resized, encoded>>]
            /\ IF out.err = ErrNotFound
               THEN /\ Finish(p, Error(StatusText(StatusNotFound), StatusNotFound), <<>>)
                    /\ UNCHANGED <<contentType, buf>>
               ELSE IF out.err = ErrForbidden
               THEN /\ Finish(p, Error(StatusText(StatusForbidden), StatusForbidden), <<>>)
                    /\ UNCHANGED <<contentType, buf>>
               ELSE IF out.err # ""
               THEN /\ Finish(p, InternalError, <<out.err>>)
                    /\ UNCHANGED <<contentType, buf>>
               ELSE IF dec.err
               THEN /\ Finish(p, InternalError, <<DecodeError>>)
                    /\ contentType' = [contentType EXCEPT ![p] = out.contentType]
                    /\ UNCHANGED buf
               ELSE IF encErr # ""
               THEN /\ Finish(p, InternalError, <<encErr>>)
                    /\ contentType' = [contentType EXCEPT ![p] = out.contentType]
                    /\ UNCHANGED buf
               ELSE /\ contentType' = [contentType EXCEPT ![p] = out.contentType]
                    /\ buf' = [buf EXCEPT ![p] =
                           Encode(dec.format, Resize(out.body, width[p], height[p]))]
                    /\ pc' = [pc EXCEPT ![p] = "upload"]
                    /\ UNCHANGED <<resp, logs>>
    /\ UNCHANGED <<load, bucket, deletes, path, query, originalKey, width, height, resizedKey,
                   after, rivals>>
    /\ UNCHANGED <<cancelled, kvars>>

\* the upload written to the original key instead of the resized key
UploadToOriginalKey(p) ==
    /\ pc[p] = "upload"
    /\ calls' = [calls EXCEPT ![p] = Append(@, Call("upload", originalKey[p], "ok"))]
    /\ bucket' = Put(bucket, originalKey[p], buf[p], contentType[p],
                     <<path[p], width[p], height[p]>>)
    /\ Finish(p, Redirect(ObjectURL(resizedKey[p]), StatusSeeOther), <<>>)
    /\ UNCHANGED <<load, deletes, path, query, originalKey, width, height, resizedKey,
                   contentType, buf, after, rivals>>
    /\ UNCHANGED <<cancelled, kvars>>

\* an upload that checks the key again and leaves an existing object alone
UploadIfAbsent(p) ==
    /\ pc[p] = "upload"
    /\ IF Exists(bucket, resizedKey[p])
       THEN UNCHANGED <<bucket, calls>>
       ELSE /\ calls' = [calls EXCEPT ![p] = Append(@, Call("upload", resizedKey[p], "ok"))]
            /\ bucket' = Put(bucket, resizedKey[p], buf[p], contentType[p],
                     <<path[p], width[p], height[p]>>)
    /\ Finish(p, Redirect(ObjectURL(resizedKey[p]), StatusSeeOther), <<>>)
    /\ UNCHANGED <<load, deletes, path, query, originalKey, width, height, resizedKey,
                   contentType, buf, after, rivals>>
    /\ UNCHANGED <<cancelled, kvars>>

\* handler() without the ErrBadRequest case: every upload failure is a 500
UploadErrorsAlike(p) ==
    /\ pc[p] = "upload"
    /\ \E err \in {o.err : o \in WithContext(cancelled[p], {[err |-> e] : e \in UploadObject})} :
        /\ calls' = [calls EXCEPT ![p] =
               Append(@, Call("upload", resizedKey[p], IF err = "" THEN "ok" ELSE Kind(err)))]
        /\ IF err # ""
           THEN /\ Finish(p, InternalError, <<err>>)
                /\ UNCHANGED bucket
           ELSE /\ bucket' = Put(bucket, resizedKey[p], buf[p], contentType[p],
                                 <<path[p], width[p], height[p]>>)
                /\ Finish(p, Redirect(ObjectURL(resizedKey[p]), StatusSeeOther), <<>>)
    /\ UNCHANGED <<load, deletes, path, query, originalKey, width, height, resizedKey,
                   contentType, buf, after, rivals>>
    /\ UNCHANGED <<cancelled, kvars>>

\* handler() without the return after a failed upload: the redirect follows
UploadThenRedirect(p) ==
    /\ pc[p] = "upload"
    /\ \E err \in {o.err : o \in WithContext(cancelled[p], {[err |-> e] : e \in UploadObject})} :
        /\ calls' = [calls EXCEPT ![p] =
               Append(@, Call("upload", resizedKey[p], IF err = "" THEN "ok" ELSE Kind(err)))]
        /\ bucket' = IF err = ""
                     THEN Put(bucket, resizedKey[p], buf[p], contentType[p],
                              <<path[p], width[p], height[p]>>)
                     ELSE bucket
        /\ Finish(p, Redirect(ObjectURL(resizedKey[p]), StatusSeeOther),
                  IF err \in {"", ErrBadRequest} THEN <<>> ELSE <<err>>)
    /\ UNCHANGED <<load, deletes, path, query, originalKey, width, height, resizedKey,
                   contentType, buf, after, rivals>>
    /\ UNCHANGED <<cancelled, kvars>>

\* an upload that leaves the object in the bucket when it fails
UploadStoresOnError(p) ==
    /\ pc[p] = "upload"
    /\ \E err \in {o.err : o \in WithContext(cancelled[p], {[err |-> e] : e \in UploadObject})} :
        /\ calls' = [calls EXCEPT ![p] =
               Append(@, Call("upload", resizedKey[p], IF err = "" THEN "ok" ELSE Kind(err)))]
        /\ bucket' = Put(bucket, resizedKey[p], buf[p], contentType[p],
                         <<path[p], width[p], height[p]>>)
        /\ IF err = ErrBadRequest
           THEN Finish(p, Error(StatusText(StatusBadRequest), StatusBadRequest), <<>>)
           ELSE IF err # ""
           THEN Finish(p, InternalError, <<err>>)
           ELSE Finish(p, Redirect(ObjectURL(resizedKey[p]), StatusSeeOther), <<>>)
    /\ UNCHANGED <<load, deletes, path, query, originalKey, width, height, resizedKey,
                   contentType, buf, after, rivals>>
    /\ UNCHANGED <<cancelled, kvars>>

\* UploadObject on the resized key, then the redirect to it
Upload(p) ==
    /\ pc[p] = "upload"
    /\ \E err \in {o.err : o \in WithContext(cancelled[p], {[err |-> e] : e \in UploadObject})} :
        /\ calls' = [calls EXCEPT ![p] =
               Append(@, Call("upload", resizedKey[p], IF err = "" THEN "ok" ELSE Kind(err)))]
        /\ IF err = ErrBadRequest
           THEN /\ Finish(p, Error(StatusText(StatusBadRequest), StatusBadRequest), <<>>)
                /\ UNCHANGED bucket
           ELSE IF err # ""
           THEN /\ Finish(p, InternalError, <<err>>)
                /\ UNCHANGED bucket
           ELSE /\ bucket' = Put(bucket, resizedKey[p], buf[p], contentType[p],
                                 <<path[p], width[p], height[p]>>)
                /\ Finish(p, Redirect(ObjectURL(resizedKey[p]), StatusSeeOther), <<>>)
    /\ UNCHANGED <<load, deletes, path, query, originalKey, width, height, resizedKey,
                   contentType, buf, after, rivals>>
    /\ UNCHANGED <<cancelled, kvars>>

\* the client goes away: the context of the request is cancelled
Cancel(p) ==
    /\ pc[p] \notin {"idle", "done"}
    /\ ~cancelled[p]
    /\ cancelled' = [cancelled EXCEPT ![p] = TRUE]
    /\ UNCHANGED <<load, bucket, deletes, pc, path, query, originalKey, width, height,
                   resizedKey, contentType, buf, calls, resp, logs, after, rivals>>
    /\ UNCHANGED kvars

\* another client of the bucket (or a lifecycle rule) removes an object
Delete ==
    /\ deletes < MaxDeletes
    /\ \E k \in DOMAIN bucket : bucket' = Remove(bucket, k)
    /\ deletes' = deletes + 1
    /\ after' = [p \in Reqs |-> FALSE]
    /\ UNCHANGED <<load, pc, path, query, originalKey, width, height, resizedKey,
                   contentType, buf, calls, resp, logs, rivals>>
    /\ UNCHANGED <<cancelled, kvars>>

(***************************************************************************)
(* getImageHandler(): the handler that talks to S3 itself                  *)
(***************************************************************************)
\* the codes of the smithy.APIError values the handler tells apart, and one
\* it does not
CodeNotFound == "NotFound"
CodeNoSuchKey == "NoSuchKey"
CodeInvalidObjectState == "InvalidObjectState"
CodeEntityTooLarge == "EntityTooLarge"

\* s3Client.HeadObject: nil, an APIError "NotFound" for an absent key, or
\* another error
HeadObject(b, key) ==
    (IF Exists(b, key) THEN {""} ELSE {CodeNotFound}) \cup OtherErrors

\* s3Client.GetObject: the object, an APIError for an absent key or an
\* archived object, or another error
GetObject(b, key) ==
    (IF Exists(b, key)
     THEN {[err |-> "", body |-> b[key].body, contentType |-> b[key].contentType]}
     ELSE {[err |-> e, body |-> EmptyBuf, contentType |-> ""] : e \in {CodeNotFound, CodeNoSuchKey}})
    \cup {[err |-> e, body |-> EmptyBuf, contentType |-> ""] :
             e \in {CodeInvalidObjectState} \cup OtherErrors}

\* s3Client.PutObject: nil, an APIError "EntityTooLarge" or another error
PutObject == {"", CodeEntityTooLarge} \cup OtherErrors

\* fmt.Sprintf("https://%s.s3.ca-west-1.amazonaws.com/%s", envVar.BucketName, key)
S3URL(key) == <<"https://", BucketName[1], ".s3.ca-west-1.amazonaws.com/">> \o key

\* splittedImageName[1] exists
HasExtension(name) == Len(Split(name, ".")) >= 2

\* the requests and buckets the S3 handler is run on: no pattern guards the
\* name, so a name without a dot reaches it as well
DirectLoad ==
    [slots |-> {1},
     menu |-> {Incoming(pth, q) : pth \in {PngPath, <<"a", ".", "gif">>, <<"asdf">>},
                                  q \in {<<>>, [w |-> <<"2">>], [h |-> <<"x">>]}},
     buckets |->
        { <<>>,
          (OriginalKey(PngPath) :> PngOriginal),
          (OriginalKey(PngPath) :> PngOriginal) @@ (ResizedKey(PngPath, 2, 0) :> PngVariant),
          (OriginalKey(<<"asdf">>) :> PngOriginal),
          (OriginalKey(PngPath) :> BadOriginal) }]

\* a request arrives; the mux has bound a non-empty imageName
DirectRequest(p) ==
    /\ pc[p] = "idle"
    /\ p \in load.slots
    /\ \E in \in load.menu :
        /\ path' = [path EXCEPT ![p] = in.path]
        /\ query' = [query EXCEPT ![p] = in.query]
        /\ IF in.path = <<>>
           THEN /\ Finish(p, Error("image name is required", StatusBadRequest), <<>>)
                /\ UNCHANGED originalKey
           ELSE /\ originalKey' = [originalKey EXCEPT ![p] = Join(<<FolderOriginal, in.path>>)]
                /\ pc' = [pc EXCEPT ![p] = "headOriginal"]
                /\ UNCHANGED <<resp, logs>>
    /\ UNCHANGED <<load, bucket, deletes, width, height, resizedKey, contentType, buf, calls,
                   after, rivals>>
    /\ UNCHANGED <<cancelled, kvars>>

\* HeadObject on the original key, the query checks, the redirect to the
\* original, and the resized key; a name without a dot panics there
DirectHeadOriginal(p) ==
    /\ pc[p] = "headOriginal"
    /\ \E err \in HeadObject(bucket, originalKey[p]) :
        /\ calls' = [calls EXCEPT ![p] =
               Append(@, Call("check", originalKey[p],
                              IF err = "" THEN "true" ELSE IF err = CodeNotFound THEN "false"
                              ELSE "error"))]
        /\ IF err = CodeNotFound
           THEN /\ Finish(p, Error(StatusText(StatusNotFound), StatusNotFound), <<>>)
                /\ UNCHANGED <<width, height, resizedKey>>
           ELSE IF err # ""
           THEN /\ Finish(p, InternalError, <<err>>)
                /\ UNCHANGED <<width, height, resizedKey>>
           ELSE LET pq == ParseQuery(query[p])
                IN  /\ width' = [width EXCEPT ![p] = pq.width]
                    /\ height' = [height EXCEPT ![p] = pq.height]
                    /\ IF pq.err # ""
                       THEN /\ Finish(p, Error(pq.err, StatusBadRequest), <<>>)
                            /\ UNCHANGED resizedKey
                       ELSE IF pq.width = 0 /\ pq.height = 0
                       THEN /\ Finish(p, Redirect(S3URL(originalKey[p]), StatusFound), <<>>)
                            /\ UNCHANGED resizedKey
                       ELSE IF ~HasExtension(path[p])
                       THEN /\ pc' = [pc EXCEPT ![p] = "done"]
                            /\ logs' = [logs EXCEPT ![p] =
                                   Append(@, "panic: index out of range [1] with length 1")]
                            /\ UNCHANGED <<resp, resizedKey>>
                       ELSE /\ resizedKey' = [resizedKey EXCEPT ![p] =
                                   Join(<<FolderResized, Split(path[p], ".")[1],
                                          Sprintf(pq.width, pq.height, Split(path[p], ".")[2])>>)]
                            /\ pc' = [pc EXCEPT ![p] = "headResized"]
                            /\ UNCHANGED <<resp, logs>>
    /\ UNCHANGED <<load, bucket, deletes, path, query, originalKey, contentType, buf, after, rivals>>
    /\ UNCHANGED <<cancelled, kvars>>

\* getImageHandler() with the hit redirected by http.StatusSeeOther
DirectHeadResizedSeeOther(p) ==
    /\ pc[p] = "headResized"
    /\ \E err \in HeadObject(bucket, resizedKey[p]) :
        /\ calls' = [calls EXCEPT ![p] =
               Append(@, Call("check", resizedKey[p],
                              IF err = "" THEN "true" ELSE IF err = CodeNotFound THEN "false"
                              ELSE "error"))]
        /\ IF err = CodeNotFound
           THEN /\ pc' = [pc EXCEPT ![p] = "get"]
                /\ UNCHANGED <<resp, logs>>
           ELSE IF err # ""
           THEN Finish(p, InternalError, <<err>>)
           ELSE Finish(p, Redirect(S3URL(resizedKey[p]), StatusSeeOther), <<>>)
    /\ UNCHANGED <<load, bucket, deletes, path, query, originalKey, width, height, resizedKey,
                   contentType, buf, after, rivals>>
    /\ UNCHANGED <<cancelled, kvars>>

\* HeadObject on the resized key; a hit redirects to it
DirectHeadResized(p) ==
    /\ pc[p] = "headResized"
    /\ \E err \in HeadObject(bucket, resizedKey[p]) :
        /\ calls' = [calls EXCEPT ![p] =
               Append(@, Call("check", resizedKey[p],
                              IF err = "" THEN "true" ELSE IF err = CodeNotFound THEN "false"
                              ELSE "error"))]
        /\ IF err = CodeNotFound
           THEN /\ pc' = [pc EXCEPT ![p] = "get"]
                /\ UNCHANGED <<resp, logs>>
           ELSE IF err # ""
           THEN Finish(p, InternalError, <<err>>)
           ELSE Finish(p, Redirect(S3URL(resizedKey[p]), StatusFound), <<>>)
    /\ UNCHANGED <<load, bucket, deletes, path, query, originalKey, width, height, resizedKey,
                   contentType, buf, after, rivals>>
    /\ UNCHANGED <<cancelled, kvars>>

\* GetObject on the original key, then decode, resize and encode
DirectGet(p) ==
    /\ pc[p] = "get"
    /\ \E out \in GetObject(bucket, originalKey[p]), encErr \in {""} \cup EncodeErrors :
        LET dec == Decode(out.body)
            downloaded == Call("download", originalKey[p], IF out.err = "" THEN "ok" ELSE Kind(out.err))
            decoded == Call("decode", NoKey, IF dec.err THEN "error" ELSE "ok")
            resized == Call("transform", NoKey, "ok")
            encoded == Call("encode", NoKey, IF encErr # "" THEN "error" ELSE "ok")
        IN  /\ calls' = [calls EXCEPT ![p] =
                   IF out.err # "" THEN Append(@, downloaded)
                   ELSE IF dec.err THEN @ \o <<downloaded, decoded>>
                   ELSE @ \o <<downloaded, decoded, resized, encoded>>]
            /\ IF out.err = CodeNotFound
               THEN /\ Finish(p, Error(StatusText(StatusNotFound), StatusNotFound), <<>>)
                    /\ UNCHANGED <<contentType, buf>>
               ELSE IF out.err = CodeInvalidObjectState
               THEN /\ Finish(p, Error(StatusText(StatusForbidden), StatusForbidden), <<>>)
                    /\ UNCHANGED <<contentType, buf>>
               ELSE IF out.err # ""
               THEN /\ Finish(p, InternalError, <<out.err>>)
                    /\ UNCHANGED <<contentType, buf>>
               ELSE IF dec.err
               THEN /\ Finish(p, InternalError, <<DecodeError>>)
                    /\ contentType' = [contentType EXCEPT ![p] = out.contentType]
                    /\ UNCHANGED buf
               ELSE IF encErr # ""
               THEN /\ Finish(p, InternalError, <<encErr>>)
                    /\ contentType' = [contentType EXCEPT ![p] = out.contentType]
                    /\ UNCHANGED buf
               ELSE /\ contentType' = [contentType EXCEPT ![p] = out.contentType]
                    /\ buf' = [buf EXCEPT ![p] =
                           Encode(dec.format, Resize(out.body, width[p], height[p]))]
                    /\ pc' = [pc EXCEPT ![p] = "put"]
                    /\ UNCHANGED <<resp, logs>>
    /\ UNCHANGED <<load, bucket, deletes, path, query, originalKey, width, height, resizedKey,
                   after, rivals>>
    /\ UNCHANGED <<cancelled, kvars>>

\* PutObject on the resized key, then the redirect to it
DirectPut(p) ==
    /\ pc[p] = "put"
    /\ \E err \in PutObject :
        /\ calls' = [calls EXCEPT ![p] =
               Append(@, Call("upload", resizedKey[p], IF err = "" THEN "ok" ELSE Kind(err)))]
        /\ IF err = CodeEntityTooLarge
           THEN /\ Finish(p, Error(StatusText(StatusRequestEntityTooLarge),
                                   StatusRequestEntityTooLarge), <<>>)
                /\ UNCHANGED bucket
           ELSE IF err # ""
           THEN /\ Finish(p, InternalError, <<err>>)
                /\ UNCHANGED bucket
           ELSE /\ bucket' = Put(bucket, resizedKey[p], buf[p], contentType[p],
                                 <<path[p], width[p], height[p]>>)
                /\ Finish(p, Redirect(S3URL(resizedKey[p]), StatusFound), <<>>)
    /\ UNCHANGED <<load, deletes, path, query, originalKey, width, height, resizedKey,
                   contentType, buf, after, rivals>>
    /\ UNCHANGED <<cancelled, kvars>>

(***************************************************************************)
(* main(): the environment, the storage client, the listener               *)
(***************************************************************************)
bucketNameEnvKey == "S3_BUCKET_NAME"
envKeyFolderOriginal == "ORIGINAL_FOLDER"
envKeyFolderResized == "RESIZED_FOLDER"
EnvKeys == {bucketNameEnvKey, envKeyFolderOriginal, envKeyFolderResized}

\* a variable of the environment: not set, set to the empty string, or set
Unset == "<unset>"
EnvValues == {Unset, "", "a", "b"}

\* os.Getenv: the value, "" for a variable that is not set
Getenv(env, key) == IF env[key] = Unset THEN "" ELSE env[key]

\* fmt.Errorf("env var %q is required", key)
Required(key) == <<"env var \"", key, "\" is required">>

\* checkKey with os.LookupEnv: only a variable that is not set is refused
checkKeyPresent(env, key) ==
    IF env[key] = Unset THEN [value |-> "", err |-> Required(key)]
    ELSE [value |-> env[key], err |-> <<>>]

\* checkKey
checkKey(env, key) ==
    IF Getenv(env, key) = "" THEN [value |-> "", err |-> Required(key)]
    ELSE [value |-> Getenv(env, key), err |-> <<>>]

NoEnvVar == [BucketName |-> "", FolderOriginal |-> "", FolderResized |-> ""]

\* envvar.New: the three keys in order, the first error is returned
EnvVarNew(env) ==
    LET b == checkKey(env, bucketNameEnvKey)
        o == checkKey(env, envKeyFolderOriginal)
        r == checkKey(env, envKeyFolderResized)
    IN  IF b.err # <<>> THEN [envVar |-> NoEnvVar, err |-> b.err]
        ELSE IF o.err # <<>> THEN [envVar |-> NoEnvVar, err |-> o.err]
        ELSE IF r.err # <<>> THEN [envVar |-> NoEnvVar, err |-> r.err]
        ELSE [envVar |-> [BucketName |-> b.value, FolderOriginal |-> o.value,
                          FolderResized |-> r.value],
              err |-> <<>>]

\* the process before main() runs, in a given environment
Process(env) ==
    [pc |-> "start", env |-> env, envVar |-> NoEnvVar, client |-> FALSE,
     served |-> 0, exit |-> 0, logs |-> <<>>]

\* the process of the runs above: configured, listening
Serving ==
    [pc |-> "serving",
     env |-> [k \in EnvKeys |-> "a"],
     envVar |-> [BucketName |-> "a", FolderOriginal |-> "a", FolderResized |-> "a"],
     client |-> TRUE, served |-> 0, exit |-> 0, logs |-> <<>>]

\* logger.Error(err.Error()); os.Exit(1)
Exit(b, err) == [b EXCEPT !.pc = "exited", !.exit = 1, !.logs = Append(@, err)]

\* envVar, err := envvar.New()
LoadEnv ==
    /\ boot.pc = "start"
    /\ LET r == EnvVarNew(boot.env)
       IN  boot' = IF r.err # <<>> THEN Exit(boot, r.err)
                   ELSE [boot EXCEPT !.pc = "newClient", !.envVar = r.envVar]
    /\ UNCHANGED <<hvars, kin, kout>>

\* s3Client, err := storage.NewS3Client(envVar.BucketName)
NewS3Client ==
    /\ boot.pc = "newClient"
    /\ \E err \in {<<>>, <<"failed to load SDK config">>} :
          boot' = IF err # <<>> THEN Exit(boot, err)
                  ELSE [boot EXCEPT !.pc = "listen", !.client = TRUE]
    /\ UNCHANGED <<hvars, kin, kout>>

\* s.ListenAndServe(): it returns at once when the port cannot be bound
ListenAndServe ==
    /\ boot.pc = "listen"
    /\ \E err \in {<<>>, <<"listen tcp :3000: bind: address already in use">>} :
          boot' = IF err # <<>> THEN Exit(boot, err)
                  ELSE [boot EXCEPT !.pc = "serving"]
    /\ UNCHANGED <<hvars, kin, kout>>

\* the listener hands a request to the handler
Serve ==
    /\ boot.pc = "serving"
    /\ boot.served < MaxServed
    /\ boot' = [boot EXCEPT !.served = @ + 1]
    /\ UNCHANGED <<hvars, kin, kout>>

(***************************************************************************)
(* Server.ServeHTTP: the server that keeps processed images in GCS         *)
(***************************************************************************)
StatusOK == 200
ErrObjectNotExist == "storage: object doesn't exist"
ErrPreconditionFailed == "failed to close writer: googleapi: Error 412: conditionNotMet"

\* splitImageName: ^(.+)\.([^.]+)$, the name up to the last dot and the format after it
splitImageName(name) ==
    IF Len(name) >= 3 /\ name[Len(name) - 1] = "." /\ name[Len(name)] # "."
    THEN [namePart |-> SubSeq(name, 1, Len(name) - 2), formatPart |-> name[Len(name)],
          err |-> ""]
    ELSE [namePart |-> <<>>, formatPart |-> "", err |-> "invalid image name"]

\* fmt's %d of an int
FormatInt(n) == IF n < 0 THEN <<"-">> \o Itoa(0 - n) ELSE Itoa(n)

\* fmt.Sprintf("processed/%s-w%d-h%d.%s", imgNamePart, w, h, imgFormatPart)
ProcessedName(namePart, w, h, formatPart) ==
    <<"processed", "/">> \o namePart \o <<"-", "w">> \o FormatInt(w)
        \o <<"-", "h">> \o FormatInt(h) \o <<".", formatPart>>

\* saveName: built from w and h as they are after the source's dimensions
\* have replaced two zeros
SaveName(p, w, h) ==
    ProcessedName(splitImageName(path[p]).namePart, w, h, splitImageName(path[p]).formatPart)

\* q.Get(k) != "" then strconv.Atoi, for w and then h
GcsQuery(q) ==
    LET get(k) == IF k \in DOMAIN q THEN q[k] ELSE <<>>
        qw == IF get(queryWidth) # <<>> THEN Atoi(get(queryWidth)) ELSE [err |-> FALSE, val |-> 0]
        qh == IF get(queryHeight) # <<>> THEN Atoi(get(queryHeight)) ELSE [err |-> FALSE, val |-> 0]
    IN  IF qw.err THEN [err |-> "invalid w", w |-> 0, h |-> 0]
        ELSE IF qh.err THEN [err |-> "invalid h", w |-> qw.val, h |-> 0]
        ELSE [err |-> "", w |-> qw.val, h |-> qh.val]

\* GetImageReader: the object, ErrObjectNotExist, or another error
GetImageReader(b, name) ==
    (IF Exists(b, name) THEN {[err |-> "", body |-> b[name].body]}
     ELSE {[err |-> ErrObjectNotExist, body |-> EmptyBuf]})
    \cup {[err |-> e, body |-> EmptyBuf] : e \in OtherErrors}

\* SaveImage: the writer has the condition DoesNotExist
SaveImage(b, name) ==
    (IF Exists(b, name) THEN {ErrPreconditionFailed} ELSE {""}) \cup OtherErrors

Written(format, w, h) == [status |-> StatusOK, body |-> "image", location |-> <<>>]

GcsPath == <<"a", ".", "png">>
GcsOriginal == Object(Image("png", 4, 2), "image/png")

\* one client at a time; the originals are stored under the image name itself
GcsLoad ==
    [slots |-> {1},
     menu |-> {Incoming(pth, q) : pth \in {GcsPath, <<"b", ".", "gif">>, <<"asdf">>},
                                  q \in {<<>>, [w |-> <<"2">>], [h |-> <<"x">>],
                                         [w |-> <<"2">>, h |-> <<"1">>]}},
     buckets |->
        { <<>>,
          (GcsPath :> GcsOriginal),
          (GcsPath :> GcsOriginal) @@ (ProcessedName(<<"a">>, 2, 0, "png") :> PngVariant),
          (GcsPath :> BadOriginal) }]

\* a request arrives: the name, the format and the query are checked and the
\* name of the processed image is built
GcsRequest(p) ==
    /\ pc[p] = "idle"
    /\ p \in load.slots
    /\ \E in \in load.menu :
        LET sp == splitImageName(in.path)
            pq == GcsQuery(in.query)
        IN
        /\ path' = [path EXCEPT ![p] = in.path]
        /\ query' = [query EXCEPT ![p] = in.query]
        /\ IF sp.err # ""
           THEN /\ Finish(p, Error(sp.err, StatusBadRequest), <<>>)
                /\ UNCHANGED <<originalKey, width, height, resizedKey>>
           ELSE IF sp.formatPart \notin {"jpg", "jpeg", "png"}
           THEN /\ Finish(p, Error("invalid image format", StatusBadRequest), <<>>)
                /\ UNCHANGED <<originalKey, width, height, resizedKey>>
           ELSE IF pq.err # ""
           THEN /\ Finish(p, Error(pq.err, StatusBadRequest), <<>>)
                /\ UNCHANGED <<originalKey, width, height, resizedKey>>
           ELSE /\ originalKey' = [originalKey EXCEPT ![p] = in.path]
                /\ width' = [width EXCEPT ![p] = pq.w]
                /\ height' = [height EXCEPT ![p] = pq.h]
                /\ resizedKey' = [resizedKey EXCEPT ![p] =
                       ProcessedName(sp.namePart, pq.w, pq.h, sp.formatPart)]
                /\ pc' = [pc EXCEPT ![p] = "lookup"]
                /\ UNCHANGED <<resp, logs>>
    /\ UNCHANGED <<load, bucket, deletes, contentType, buf, calls, after, rivals>>
    /\ UNCHANGED <<cancelled, kvars>>

\* GetImageReader on the processed name; a processed image found is sent
GcsLookup(p) ==
    /\ pc[p] = "lookup"
    /\ \E out \in GetImageReader(bucket, resizedKey[p]) :
        /\ calls' = [calls EXCEPT ![p] =
               Append(@, Call("get", resizedKey[p],
                              IF out.err = "" THEN "ok"
                              ELSE IF out.err = ErrObjectNotExist THEN "absent" ELSE "error"))]
        /\ IF out.err = ""
           THEN Finish(p, Written(out.body.format, out.body.w, out.body.h), <<>>)
           ELSE IF out.err = ErrObjectNotExist
           THEN /\ pc' = [pc EXCEPT ![p] = "process"]
                /\ UNCHANGED <<resp, logs>>
           ELSE Finish(p, Error(out.err, StatusInternalServerError), <<>>)
    /\ UNCHANGED <<load, bucket, deletes, path, query, originalKey, width, height, resizedKey,
                   contentType, buf, after, rivals>>
    /\ UNCHANGED <<cancelled, kvars>>

\* the original is read and processed, the result saved and sent; the save
\* name is built by saveName
GcsProcess(p) ==
    /\ pc[p] = "process"
    /\ \E out \in GetImageReader(bucket, originalKey[p]), prcErr \in {"", "processing failed"} :
        LET bad == out.err = "" /\ out.body.format = ""
            w == IF width[p] = 0 /\ height[p] = 0 THEN out.body.w ELSE width[p]
            h == IF width[p] = 0 /\ height[p] = 0 THEN out.body.h ELSE height[p]
            saveName == SaveName(p, w, h)
            got == Call("get", originalKey[p],
                        IF out.err = "" THEN "ok"
                        ELSE IF out.err = ErrObjectNotExist THEN "absent" ELSE "error")
        IN  IF out.err # "" \/ bad \/ prcErr # ""
            THEN /\ calls' = [calls EXCEPT ![p] = Append(@, got)]
                 /\ Finish(p, IF out.err = ErrObjectNotExist
                              THEN Error(out.err, StatusNotFound)
                              ELSE IF out.err # ""
                              THEN Error(out.err, StatusInternalServerError)
                              ELSE IF bad
                              THEN Error(DecodeError, StatusInternalServerError)
                              ELSE Error(prcErr, StatusInternalServerError), <<>>)
                 /\ UNCHANGED <<bucket, buf>>
            ELSE \E err \in SaveImage(bucket, saveName) :
                 /\ calls' = [calls EXCEPT ![p] =
                        @ \o <<got, Call("save", saveName, IF err = "" THEN "ok" ELSE "error")>>]
                 /\ buf' = [buf EXCEPT ![p] = Resize(out.body, w, h)]
                 /\ IF err # ""
                    THEN /\ Finish(p, Error(err, StatusInternalServerError), <<>>)
                         /\ UNCHANGED bucket
                    ELSE /\ bucket' = Put(bucket, saveName, Resize(out.body, w, h), "",
                                          <<path[p], width[p], height[p]>>)
                         /\ Finish(p, Written(out.body.format, w, h), <<>>)
    /\ UNCHANGED <<load, deletes, path, query, originalKey, width, height, resizedKey,
                   contentType, after, rivals>>
    /\ UNCHANGED <<cancelled, kvars>>

(***************************************************************************)
(* storage.Client on its own: S3Client and the stubStorageClient of the    *)
(* handler's test, driven by uploads and downloads                         *)
(***************************************************************************)
ClientS3 == "S3Client"
ClientStub == "stubStorageClient"

\* newStubObject(format, width, height): a blank image of that format and
\* size, with the content type made from the format
newStubObject(format, w, h) ==
    Object(Image(format, w, h),
           IF format = "jpeg" THEN "image/jpeg" ELSE IF format = "png" THEN "image/png"
           ELSE "image/")

\* stubStorageClient.UploadObject: the body is decoded and a new stub object
\* of its format and size is stored; the contentType given is not used
StubUpload(b, key, body, ctype) ==
    IF Decode(body).err THEN [err |-> DecodeError, bucket |-> b]
    ELSE [err |-> "",
          bucket |-> [k \in DOMAIN b \cup {key} |->
                         IF k = key THEN newStubObject(body.format, body.w, body.h) ELSE b[k]]]

\* stubStorageClient.DownloadObject: the stored buffer itself is handed out,
\* so what the caller reads is gone from the stored object
StubDownload(b, key) ==
    IF ~Exists(b, key)
    THEN [err |-> ErrNotFound, body |-> EmptyBuf, contentType |-> "", bucket |-> b]
    ELSE [err |-> "", body |-> b[key].body, contentType |-> b[key].contentType,
          bucket |-> [b EXCEPT ![key].body = EmptyBuf]]

StoreKeys == {<<"resized", "/", "a", "/", "w2h0.png">>, <<"resized", "/", "a", "/", "w0h1.png">>}
StoreBodies == {Image("png", 2, 1), Image("jpeg", 4, 2)}
StoreTypes == {"image/png", "application/octet-stream"}

StoreLoad(impl) == [slots |-> {}, menu |-> {}, buckets |-> {<<>>}, client |-> impl]

StoreOp(op, key, body, ctype, res) ==
    [op |-> op, key |-> key, body |-> body, contentType |-> ctype, res |-> res]

\* UploadObject(ctx, key, body, contentType) on the client of this run
StoreUpload ==
    /\ Len(calls[1]) < MaxOps
    /\ \E key \in StoreKeys, body \in StoreBodies, ctype \in StoreTypes :
        IF load.client = ClientS3
        THEN \E err \in UploadObject :
               /\ bucket' = IF err = "" THEN Put(bucket, key, body, ctype, <<>>) ELSE bucket
               /\ calls' = [calls EXCEPT ![1] =
                      Append(@, StoreOp("upload", key, body, ctype,
                                        IF err = "" THEN "ok" ELSE Kind(err)))]
        ELSE LET out == StubUpload(bucket, key, body, ctype)
             IN  /\ bucket' = out.bucket
                 /\ calls' = [calls EXCEPT ![1] =
                        Append(@, StoreOp("upload", key, body, ctype,
                                          IF out.err = "" THEN "ok" ELSE "error"))]
    /\ UNCHANGED <<load, deletes, pc, path, query, originalKey, width, height, resizedKey,
                   contentType, buf, resp, logs, after, rivals>>
    /\ UNCHANGED <<cancelled, kvars>>

\* DownloadObject(ctx, key) on the client of this run; the caller reads the body
StoreDownload ==
    /\ Len(calls[1]) < MaxOps
    /\ \E key \in StoreKeys :
        IF load.client = ClientS3
        THEN \E out \in DownloadObject(bucket, key) :
               /\ bucket' = bucket
               /\ calls' = [calls EXCEPT ![1] =
                      Append(@, StoreOp("download", key, out.body, out.contentType,
                                        IF out.err = "" THEN "ok" ELSE Kind(out.err)))]
        ELSE LET out == StubDownload(bucket, key)
             IN  /\ bucket' = out.bucket
                 /\ calls' = [calls EXCEPT ![1] =
                        Append(@, StoreOp("download", key, out.body, out.contentType,
                                          IF out.err = "" THEN "ok" ELSE out.err))]
    /\ UNCHANGED <<load, deletes, pc, path, query, originalKey, width, height, resizedKey,
                   contentType, buf, resp, logs, after, rivals>>
    /\ UNCHANGED <<cancelled, kvars>>

(***************************************************************************)
(* The keys under other folders: handler() with the folders of the         *)
(* environment, for a request and for another image of the bucket          *)
(***************************************************************************)
\* values of ORIGINAL_FOLDER and RESIZED_FOLDER
Folders == {<<"o">>, <<"r">>, <<"r", "/", "a">>, <<"o", "/", "x">>}
FPaths == {<<"a", ".", "png">>, <<"w", "1", "h", "0", ".", "png">>}
FSizes == {<<1, 0>>, <<0, 1>>, <<2, 1>>}

\* filepath.Join(envVar.FolderOriginal, path)
OriginalKeyIn(folder, pth) == Join(<<folder, pth>>)

\* the resized key without the requested sizes in the file name
ResizedKeyUnsized(folder, pth, w, h) ==
    Join(<<folder, imageName(pth), Sprintf(1, 0, imageFormat(pth))>>)

\* filepath.Join(envVar.FolderResized, imageName, fmt.Sprintf("w%dh%d.%s", ...))
ResizedKeyIn(folder, pth, w, h) ==
    Join(<<folder, imageName(pth), Sprintf(w, h, imageFormat(pth))>>)

\* handler() up to the resized key for the request, and the original key of
\* another image
DeriveIn ==
    /\ kout = <<>>
    /\ kout' = [originalKey |-> OriginalKeyIn(kin.original, kin.path),
                resizedKey |-> ResizedKeyIn(kin.resized, kin.path, kin.size[1], kin.size[2]),
                otherOriginal |-> OriginalKeyIn(kin.original, kin.other)]
    /\ UNCHANGED <<kin, boot>>
    /\ UNCHANGED hvars

(***************************************************************************)
(* Key derivation on its own: the part of handler() that turns the path    *)
(* and the query into keys, applied to two requests side by side           *)
(***************************************************************************)
KPaths == { <<"a", ".", "png">>, <<"a", ".", "jpeg">>, <<"a", ".", "jpg">>, <<"b", ".", "png">>,
            <<"a", ".", "x", ".", "png">>, <<"a", ".", "x", ".", "jpeg">>,
            <<"a", ".", "gif">>, <<"asdf">> }
KQVals == {<<"1">>, <<"1", "1">>, <<"+", "1">>}
KQueries == UNION {[S -> KQVals] : S \in SUBSET {queryWidth, queryHeight}}
KSlots == {1, 2}

NoKeys == [state |-> "none", originalKey |-> NoKey, width |-> 0, height |-> 0,
           resizedKey |-> NoKey]

\* the key built from the query text instead of the parsed numbers
DeriveKeysRaw(i) ==
    /\ kin # <<>>
    /\ kout[i].state = "none"
    /\ LET pth == kin[i].path
           q == kin[i].query
           pq == ParseQuery(q)
           raw(k) == IF k \in DOMAIN q THEN q[k] ELSE <<"0">>
       IN  kout' = [kout EXCEPT ![i] =
               IF ~imagePathRegex(pth) THEN [NoKeys EXCEPT !.state = "invalid path"]
               ELSE IF pq.err # ""
               THEN [NoKeys EXCEPT !.state = "invalid query", !.originalKey = OriginalKey(pth)]
               ELSE IF pq.width = 0 /\ pq.height = 0
               THEN [NoKeys EXCEPT !.state = "original", !.originalKey = OriginalKey(pth)]
               ELSE [state |-> "resized", originalKey |-> OriginalKey(pth),
                     width |-> pq.width, height |-> pq.height,
                     resizedKey |-> Join(<<FolderResized, imageName(pth),
                                           <<"w">> \o raw(queryWidth) \o <<"h">> \o raw(queryHeight)
                                               \o <<".">> \o imageFormat(pth)>>)]]
    /\ UNCHANGED <<kin, boot>>
    /\ UNCHANGED hvars

\* handler() up to the computation of resizedKey, for an original that exists
DeriveKeys(i) ==
    /\ kin # <<>>
    /\ kout[i].state = "none"
    /\ LET pth == kin[i].path
           pq == ParseQuery(kin[i].query)
       IN  kout' = [kout EXCEPT ![i] =
               IF ~imagePathRegex(pth) THEN [NoKeys EXCEPT !.state = "invalid path"]
               ELSE IF pq.err # ""
               THEN [NoKeys EXCEPT !.state = "invalid query", !.originalKey = OriginalKey(pth)]
               ELSE IF pq.width = 0 /\ pq.height = 0
               THEN [NoKeys EXCEPT !.state = "original", !.originalKey = OriginalKey(pth)]
               ELSE [state |-> "resized", originalKey |-> OriginalKey(pth),
                     width |-> pq.width, height |-> pq.height,
                     resizedKey |-> ResizedKey(pth, pq.width, pq.height)]]
    /\ UNCHANGED <<kin, boot>>
    /\ UNCHANGED hvars

KInit ==
    /\ kin = <<>>
    /\ kout = <<>>
    /\ boot = Serving

\* every handler slot idle, nothing deleted yet
Idle ==
    /\ deletes = 0
    /\ pc = [p \in Reqs |-> "idle"]
    /\ path = [p \in Reqs |-> <<>>]
    /\ query = [p \in Reqs |-> <<>>]
    /\ originalKey = [p \in Reqs |-> NoKey]
    /\ width = [p \in Reqs |-> 0]
    /\ height = [p \in Reqs |-> 0]
    /\ resizedKey = [p \in Reqs |-> NoKey]
    /\ contentType = [p \in Reqs |-> ""]
    /\ buf = [p \in Reqs |-> EmptyBuf]
    /\ calls = [p \in Reqs |-> <<>>]
    /\ resp = [p \in Reqs |-> <<>>]
    /\ logs = [p \in Reqs |-> <<>>]
    /\ after = [p \in Reqs |-> FALSE]
    /\ rivals = [p \in Reqs |-> {}]
    /\ cancelled = [p \in Reqs |-> FALSE]

HInit ==
    /\ load \in Loads
    /\ bucket \in load.buckets
    /\ Idle

Init == HInit /\ KInit

Next ==
    \/ \E p \in Reqs : Request(p)
    \/ \E p \in Reqs : CheckOriginal(p)
    \/ \E p \in Reqs : CheckResized(p)
    \/ \E p \in Reqs : Download(p)
    \/ \E p \in Reqs : Upload(p)
    \/ \E p \in Reqs : Return(p)
    \/ Delete

Spec == Init /\ [][Next]_vars

\* every storage call returns and the handler goes on after it: weak fairness
\* of each step of each request (for CheckOriginal with its enabling
\* condition, pc[p] = "checkOriginal", written out)
Returns ==
    \A p \in Reqs : /\ \/ []<>(pc[p] # "checkOriginal")
                        \/ []<><<CheckOriginal(p)>>_vars
                     /\ WF_vars(CheckResized(p))
                     /\ WF_vars(Download(p))
                     /\ WF_vars(Upload(p))

LiveInit ==
    /\ load \in {SteadyLoad, ConcurrentLoad}
    /\ bucket \in load.buckets
    /\ Idle
    /\ KInit

LiveSpec == LiveInit /\ [][Next]_vars /\ Returns

\* the handler with clients that may go away while their request runs
CancelNext ==
    \/ Next
    \/ \E p \in Reqs : Cancel(p)

CancelSpec == LiveInit /\ [][CancelNext]_vars

\* getImageHandler() serving the requests
DirectNext ==
    \/ \E p \in Reqs : DirectRequest(p)
    \/ \E p \in Reqs : DirectHeadOriginal(p)
    \/ \E p \in Reqs : DirectHeadResized(p)
    \/ \E p \in Reqs : DirectGet(p)
    \/ \E p \in Reqs : DirectPut(p)
    \/ \E p \in Reqs : Return(p)
    \/ Delete

\* a deployment runs one of the two handlers: server.New registers either
\* handler() or getImageHandler() for GET /{imageName}
VariantInit ==
    /\ load \in {SteadyLoad, DirectLoad}
    /\ bucket \in load.buckets
    /\ Idle
    /\ KInit

VariantNext ==
    \/ load # DirectLoad /\ Next
    \/ load = DirectLoad /\ DirectNext

VariantSpec == VariantInit /\ [][VariantNext]_vars

\* main() started in every environment
StartInit ==
    /\ load = SerialLoad
    /\ bucket = <<>>
    /\ Idle
    /\ kin = <<>>
    /\ kout = <<>>
    /\ boot \in {Process(env) : env \in [EnvKeys -> EnvValues]}

StartNext ==
    \/ LoadEnv
    \/ NewS3Client
    \/ ListenAndServe
    \/ Serve

StartSpec == StartInit /\ [][StartNext]_vars

\* Server.ServeHTTP serving one request after the other
GcsInit ==
    /\ load = GcsLoad
    /\ bucket \in load.buckets
    /\ Idle
    /\ KInit

GcsNext ==
    \/ \E p \in Reqs : GcsRequest(p)
    \/ \E p \in Reqs : GcsLookup(p)
    \/ \E p \in Reqs : GcsProcess(p)
    \/ \E p \in Reqs : Return(p)

GcsSpec == GcsInit /\ [][GcsNext]_vars

\* a client of the store, S3Client or the stub, used directly
StoreInit ==
    /\ load \in {StoreLoad(ClientS3), StoreLoad(ClientStub)}
    /\ bucket = <<>>
    /\ Idle
    /\ KInit

StoreNext ==
    \/ StoreUpload
    \/ StoreDownload

StoreSpec == StoreInit /\ [][StoreNext]_vars

\* the handler serving variants of originals whose bytes may not be of the
\* format their name says
MixedInit ==
    /\ load = MixedLoad
    /\ bucket \in load.buckets
    /\ Idle
    /\ KInit

MixedSpec == MixedInit /\ [][Next]_vars

\* the keys for every pair of distinct folders
FolderInit ==
    /\ load = SerialLoad
    /\ bucket = <<>>
    /\ Idle
    /\ kin \in {c \in [original : Folders, resized : Folders, path : FPaths,
                        size : FSizes, other : FPaths] : c.original # c.resized}
    /\ kout = <<>>
    /\ boot = Serving

FolderNext == DeriveIn

FolderSpec == FolderInit /\ [][FolderNext]_vars

\* the key derivation applied to every pair of requests
KeyInit ==
    /\ load = SerialLoad
    /\ bucket = <<>>
    /\ Idle
    /\ kin \in [KSlots -> [path : KPaths, query : KQueries]]
    /\ kout = [i \in KSlots |-> NoKeys]
    /\ boot = Serving

KeyNext == \E i \in KSlots : DeriveKeys(i)

KeySpec == KeyInit /\ [][KeyNext]_vars

(***************************************************************************)
(* What a request did                                                      *)
(***************************************************************************)
Done(p) == pc[p] = "done"
Arrived(p) == pc[p] # "idle"
Made(p, c) == \E i \in 1..Len(calls[p]) : calls[p][i] = c
Count(p, op) == Cardinality({i \in 1..Len(calls[p]) : calls[p][i].op = op})
CountOn(p, op, key) ==
    Cardinality({i \in 1..Len(calls[p]) : calls[p][i].op = op /\ calls[p][i].key = key})
\* no storage call and no step of the transform failed
AllOK(p) == \A i \in 1..Len(calls[p]) : calls[p][i].res \in {"true", "false", "ok"}
NoDownloadTransformUpload(p) ==
    \A i \in 1..Len(calls[p]) : calls[p][i].op = "check"

OriginalFound(p) == Made(p, Call("check", originalKey[p], "true"))
OriginalAbsent(p) == Made(p, Call("check", originalKey[p], "false"))
ResizedFound(p) == resizedKey[p] # NoKey /\ Made(p, Call("check", resizedKey[p], "true"))
ResizedMissed(p) == resizedKey[p] # NoKey /\ Made(p, Call("check", resizedKey[p], "false"))

RedirectsTo(p, key) ==
    /\ Len(resp[p]) = 1
    /\ resp[p][1].status \in 300..399
    /\ resp[p][1].location = ObjectURL(key)

\* the path has the form <name>.<ext> with ext one of jpeg, jpg, png
MatchesNameExt(pth) ==
    /\ Len(pth) >= 3
    /\ pth[Len(pth) - 1] = "."
    /\ pth[Len(pth)] \in {"jpeg", "jpg", "png"}

\* the calls of a request that resolves a cache miss
MissCalls(p) ==
    << Call("check", originalKey[p], "true"), Call("check", resizedKey[p], "false"),
       Call("download", originalKey[p], "ok"), Call("decode", NoKey, "ok"),
       Call("transform", NoKey, "ok"), Call("encode", NoKey, "ok"),
       Call("upload", resizedKey[p], "ok") >>

(***************************************************************************)
(* C1  Cache miss                                                          *)
(***************************************************************************)
\* C1 (as claimed): a request with a valid path, an existing original, at
\* least one of w/h and a resized key absent at its existence check makes
\* exactly one download (of the original key), one transform and one upload
\* (to the resized key), and redirects to the URL of the resized key.
C1_MissAlwaysUploads ==
    \A p \in Reqs :
        (/\ Done(p) /\ MatchesNameExt(path[p]) /\ OriginalFound(p)
         /\ DOMAIN query[p] # {} /\ ResizedMissed(p))
        => /\ CountOn(p, "download", originalKey[p]) = 1 /\ Count(p, "download") = 1
           /\ Count(p, "transform") = 1
           /\ CountOn(p, "upload", resizedKey[p]) = 1 /\ Count(p, "upload") = 1
           /\ RedirectsTo(p, resizedKey[p])

\* C1 (amended): such a request, when its download, the decoding and encoding
\* of the image and its upload all succeed, makes exactly one download (of
\* the original key), one transform and one upload (to the resized key), in
\* that order, and redirects to the URL of the resized key.
C1_MissUploadsOnSuccess ==
    \A p \in Reqs :
        (/\ Done(p) /\ MatchesNameExt(path[p]) /\ OriginalFound(p)
         /\ DOMAIN query[p] # {} /\ ResizedMissed(p) /\ AllOK(p))
        => /\ calls[p] = MissCalls(p)
           /\ resizedKey[p] = ResizedKey(path[p], width[p], height[p])
           /\ originalKey[p] = OriginalKey(path[p])
           /\ RedirectsTo(p, resizedKey[p])

\* a request went through a cache miss without any failure
C1_Witness ==
    \E p \in Reqs : Done(p) /\ ResizedMissed(p) /\ AllOK(p) /\ Exists(bucket, resizedKey[p])

(***************************************************************************)
(* C2  A resolved miss is a hit afterwards                                 *)
(***************************************************************************)
\* the request asks for a (path, w, h) that a cache miss resolved before it
\* arrived, and nothing was deleted from the bucket since that miss
AfterMiss(p) == Arrived(p) /\ after[p]

\* C2 (as claimed): after a cache miss for (path, w, h) ended in a redirect, a
\* later request with the same path, w and h (no deletion in between) makes
\* no download and no upload and redirects to the same resized key.
C2_LaterRequestHits ==
    \A p \in Reqs :
        (Done(p) /\ AfterMiss(p))
        => /\ NoDownloadTransformUpload(p)
           /\ LET pq == ParseQuery(query[p])
              IN  RedirectsTo(p, ResizedKey(path[p], pq.width, pq.height))

\* C2 (amended): such a later request makes no download and no upload, and
\* when its check of the original finds it and none of its existence checks
\* fails with a backend error, it redirects to the same resized key.
C2_LaterRequestHitsIfChecksPass ==
    \A p \in Reqs :
        AfterMiss(p)
        => /\ NoDownloadTransformUpload(p)
           /\ (Done(p) /\ OriginalFound(p) /\ AllOK(p))
               => LET pq == ParseQuery(query[p])
                  IN  RedirectsTo(p, ResizedKey(path[p], pq.width, pq.height))

\* a later request for an already resolved (path, w, h) was answered from the cache
C2_Witness ==
    \E p \in Reqs : Done(p) /\ AfterMiss(p) /\ ResizedFound(p)

(***************************************************************************)
(* C3  Cache hit                                                           *)
(***************************************************************************)
\* C3: a request whose existence check finds the resized key makes no
\* download, no transform and no upload, and redirects to the URL of the
\* resized key.
C3_HitShortCircuits ==
    \A p \in Reqs :
        ResizedFound(p)
        => /\ NoDownloadTransformUpload(p)
           /\ Done(p)
           /\ RedirectsTo(p, resizedKey[p])

C3_Witness ==
    \E p \in Reqs : ResizedFound(p) /\ Done(p)

(***************************************************************************)
(* C4  No width and no height                                              *)
(***************************************************************************)
\* C4: a request with neither w nor h makes no download, transform or upload;
\* when its path is valid and the original exists it redirects to the URL of
\* the original key, its only storage call being the existence check of the
\* original key.
C4_OriginalFastPath ==
    \A p \in Reqs :
        (Arrived(p) /\ DOMAIN query[p] = {})
        => /\ NoDownloadTransformUpload(p)
           /\ (MatchesNameExt(path[p]) /\ OriginalFound(p))
               => /\ Done(p)
                  /\ RedirectsTo(p, OriginalKey(path[p]))
                  /\ calls[p] = <<Call("check", OriginalKey(path[p]), "true")>>

C4_Witness ==
    \E p \in Reqs : Done(p) /\ DOMAIN query[p] = {} /\ OriginalFound(p)

(***************************************************************************)
(* C8  Concurrent misses on the same key                                   *)
(***************************************************************************)
\* p and q were in flight at the same time with the same request, and the
\* resized key was not stored when the second of them arrived
Concurrent(p, q) == q \in rivals[p] \/ p \in rivals[q]
SameRequest(p, q) ==
    /\ path[p] = path[q]
    /\ ParseQuery(query[p]) = ParseQuery(query[q])

\* C8 (as claimed): two concurrent requests for the same (identity, w, h) whose
\* resized key was never cached both observe a miss and both download,
\* transform and upload to the same resized key. Stated for requests that
\* both find the original, with nothing deleted from the bucket and no
\* storage call or transform step failing.
C8_ConcurrentBothUpload ==
    \A p, q \in Reqs :
        (/\ p # q /\ Done(p) /\ Done(q) /\ Concurrent(p, q)
         /\ SameRequest(p, q) /\ OriginalFound(p) /\ OriginalFound(q) /\ deletes = 0
         /\ AllOK(p) /\ AllOK(q))
        => /\ calls[p] = MissCalls(p)
           /\ calls[q] = MissCalls(q)
           /\ resizedKey[p] = resizedKey[q]

\* C8 (amended): two requests for the same (identity, w, h) that both observe
\* a miss both go on to download, transform and upload to the same resized
\* key, each unless its own download, decoding, encoding or upload fails; the
\* key is checked once per request and an upload is never held back, whether
\* or not the other request has already stored the key.
C8_RacingMissesBothUpload ==
    \A p, q \in Reqs :
        (/\ p # q /\ SameRequest(p, q)
         /\ ResizedMissed(p) /\ ResizedMissed(q))
        => /\ resizedKey[p] = resizedKey[q]
           /\ CountOn(p, "check", resizedKey[p]) = 1
           /\ pc[p] = "download" => ENABLED Download(p)
           /\ pc[p] = "upload" => ENABLED Upload(p)
           /\ (Done(p) /\ AllOK(p))
               => /\ calls[p] = MissCalls(p)
                  /\ RedirectsTo(p, resizedKey[q])

\* both requests missed and both uploaded to the same key
C8_Witness ==
    \E p, q \in Reqs :
        /\ p # q /\ Done(p) /\ Done(q) /\ Concurrent(p, q)
        /\ calls[p] = MissCalls(p) /\ calls[q] = MissCalls(q)
        /\ resizedKey[p] = resizedKey[q]

(***************************************************************************)
(* C9  Invalid path                                                        *)
(***************************************************************************)
\* C9: a request whose path is not <name>.<ext> with ext in {jpeg, jpg, png}
\* is answered 400 with the invalid-path message and makes no storage call.
C9_InvalidPath ==
    \A p \in Reqs :
        (Arrived(p) /\ ~MatchesNameExt(path[p]))
        => /\ Done(p)
           /\ resp[p] = <<Error("invalid image path", 400)>>
           /\ calls[p] = <<>>

\* a request for a.gif was answered
C9_Witness ==
    \E p \in Reqs : Done(p) /\ path[p] = <<"a", ".", "gif">> /\ DOMAIN query[p] # {}

(***************************************************************************)
(* C10  Missing original                                                   *)
(***************************************************************************)
\* C10: a request with a valid path whose original key is absent is answered
\* 404 without any download or upload, whatever its query and even when a
\* resized variant of the image is stored; a backend error from the existence
\* check of the original gives 500.
C10_MissingOriginal ==
    \A p \in Reqs :
        (Arrived(p) /\ MatchesNameExt(path[p]))
        => /\ OriginalAbsent(p)
               => /\ Done(p)
                  /\ resp[p] = <<Error("Not Found", 404)>>
                  /\ calls[p] = <<Call("check", OriginalKey(path[p]), "false")>>
           /\ Made(p, Call("check", OriginalKey(path[p]), "error"))
               => /\ Done(p)
                  /\ resp[p] = <<Error("Internal Server Error", 500)>>
                  /\ Len(calls[p]) = 1

\* the original was absent, a resized variant of it was stored, and the query
\* was not even a number
C10_Witness ==
    \E p \in Reqs :
        /\ Done(p) /\ OriginalAbsent(p)
        /\ queryWidth \in DOMAIN query[p] /\ Atoi(query[p][queryWidth]).err
        /\ Exists(bucket, ResizedKey(path[p], 2, 0))

(***************************************************************************)
(* The data model's view of a path <name>.<ext>                            *)
(***************************************************************************)
\* everything before the final extension
NameOf(p) == SubSeq(p, 1, Len(p) - 2)
\* the validated extension
ExtOf(p) == p[Len(p)]
\* the image format an extension stands for
FormatOf(p) == IF ExtOf(p) \in {"jpeg", "jpg"} THEN "JPEG" ELSE "PNG"
\* the identity (name, format)
IdentityOf(p) == <<NameOf(p), FormatOf(p)>>

Resized(i) == kout[i].state = "resized"

(***************************************************************************)
(* C5  Cache addressing is idempotent                                      *)
(***************************************************************************)
\* C5 (as claimed): two requests with equal identity (name, format in
\* {JPEG, PNG}), width and height get the same resized key.
C5_SameIdentitySameKey ==
    \A i, j \in DOMAIN kout :
        (/\ Resized(i) /\ Resized(j)
         /\ IdentityOf(kin[i].path) = IdentityOf(kin[j].path)
         /\ kout[i].width = kout[j].width /\ kout[i].height = kout[j].height)
        => kout[i].resizedKey = kout[j].resizedKey

\* C5 (amended): two requests with equal name, equal extension (jpeg, jpg and
\* png taken literally), equal width and equal height get the same resized
\* key, however the numbers are spelled in the query.
C5_SamePathSameKey ==
    \A i, j \in DOMAIN kout :
        (/\ Resized(i) /\ Resized(j)
         /\ NameOf(kin[i].path) = NameOf(kin[j].path)
         /\ ExtOf(kin[i].path) = ExtOf(kin[j].path)
         /\ kout[i].width = kout[j].width /\ kout[i].height = kout[j].height)
        => kout[i].resizedKey = kout[j].resizedKey

\* two requests for the same path and dimensions, spelled differently, both resolved
C5_Witness ==
    /\ kin # <<>>
    /\ Resized(1) /\ Resized(2)
    /\ kin[1].path = kin[2].path
    /\ kin[1].query # kin[2].query
    /\ kout[1].width = kout[2].width /\ kout[1].height = kout[2].height

(***************************************************************************)
(* C6  Shape of the keys                                                   *)
(***************************************************************************)
\* C6: for an accepted path <name>.<ext> the original key is
\* <originalFolder>/<name>.<ext> and the resized key is
\* <resizedFolder>/<name>/w<w>h<h>.<ext>, an omitted dimension written as 0.
C6_KeyShape ==
    \A i \in DOMAIN kout :
        LET pth == kin[i].path
            q == kin[i].query
            w == IF queryWidth \in DOMAIN q THEN kout[i].width ELSE 0
            h == IF queryHeight \in DOMAIN q THEN kout[i].height ELSE 0
        IN  /\ kout[i].state \in {"original", "resized"} =>
                kout[i].originalKey = FolderOriginal \o <<"/">> \o NameOf(pth) \o <<".", ExtOf(pth)>>
            /\ Resized(i) =>
                kout[i].resizedKey = FolderResized \o <<"/">> \o NameOf(pth) \o <<"/", "w">>
                                       \o Itoa(w) \o <<"h">> \o Itoa(h) \o <<".", ExtOf(pth)>>

(***************************************************************************)
(* C7  The resized key is injective in (w, h)                              *)
(***************************************************************************)
\* C7: for a fixed identity, two requests with different (w, h) never share a
\* resized key; width-only, height-only and both-dimension requests differ.
C7_InjectiveInShape ==
    \A i, j \in DOMAIN kout :
        (/\ Resized(i) /\ Resized(j)
         /\ IdentityOf(kin[i].path) = IdentityOf(kin[j].path)
         /\ <<kout[i].width, kout[i].height>> # <<kout[j].width, kout[j].height>>)
        => kout[i].resizedKey # kout[j].resizedKey

\* the same path asked as w=1&h=11 and as w=11&h=1
C7_Witness ==
    /\ kin # <<>>
    /\ Resized(1) /\ Resized(2)
    /\ kin[1].path = kin[2].path
    /\ kout[1].width = 1 /\ kout[1].height = 11
    /\ kout[2].width = 11 /\ kout[2].height = 1

(***************************************************************************)
(* C11  Invalid w or h                                                     *)
(***************************************************************************)
\* a w or h that is present but not a number, zero or negative
BadParam(q) ==
    \E k \in DOMAIN q : Atoi(q[k]).err \/ Atoi(q[k]).val <= 0

InvalidQueryMessages ==
    { "failed converting w into integer", "if specified, w must be larger than 0",
      "failed converting h into integer", "if specified, h must be larger than 0" }

\* C11: a request with a w or h that is present but non-numeric, zero or
\* negative never gets a resized key, never checks a resized key, downloads
\* or uploads, and is never answered with a redirect; when its path is valid
\* and its original is found it is answered 400 with an invalid-query message.
C11_InvalidQuery ==
    \A p \in Reqs :
        (Arrived(p) /\ BadParam(query[p]))
        => /\ resizedKey[p] = NoKey
           /\ \A i \in 1..Len(calls[p]) :
                  calls[p][i].op = "check" /\ calls[p][i].key = originalKey[p]
           /\ \A i \in 1..Len(resp[p]) : resp[p][i].status \notin 300..399
           /\ (MatchesNameExt(path[p]) /\ OriginalFound(p))
               => /\ Done(p)
                  /\ Len(resp[p]) = 1
                  /\ resp[p][1].status = 400
                  /\ resp[p][1].body \in InvalidQueryMessages

\* an explicit w=0, alone, for an original that exists, was rejected
C11_Witness ==
    \E p \in Reqs :
        /\ Done(p) /\ OriginalFound(p)
        /\ query[p] = [w |-> <<"0">>]
        /\ resp[p] = <<Error("if specified, w must be larger than 0", 400)>>

(***************************************************************************)
(* C12  Rejected upload                                                    *)
(***************************************************************************)
UploadFailedWith(p, err) == Made(p, Call("upload", resizedKey[p], err))

DownloadFailedWith(p, err) == Made(p, Call("download", originalKey[p], err))
DownloadFailed(p) == \E err \in {ErrNotFound, ErrForbidden, ErrOther} : DownloadFailedWith(p, err)

\* C13: on the cache-miss path a download failing with NotFound is answered
\* 404, with Forbidden 403, with any other error 500; in all three the
\* download is the request's last step: no decode, transform or upload.
C13_DownloadFailure ==
    \A p \in Reqs :
        /\ DownloadFailedWith(p, ErrNotFound) => resp[p] = <<Error("Not Found", 404)>>
        /\ DownloadFailedWith(p, ErrForbidden) => resp[p] = <<Error("Forbidden", 403)>>
        /\ DownloadFailedWith(p, ErrOther) => resp[p] = <<Error("Internal Server Error", 500)>>
        /\ DownloadFailed(p)
            => /\ Done(p)
               /\ ResizedMissed(p)
               /\ calls[p][Len(calls[p])].op = "download"
               /\ Count(p, "download") = 1
               /\ Count(p, "decode") = 0 /\ Count(p, "transform") = 0
               /\ Count(p, "encode") = 0 /\ Count(p, "upload") = 0

\* the original was there at the existence check and gone at the download
C13_Witness ==
    \E p \in Reqs :
        /\ Done(p) /\ OriginalFound(p) /\ ResizedMissed(p)
        /\ DownloadFailedWith(p, ErrNotFound)

(***************************************************************************)
(* C14  Error messages stay on the server                                  *)
(***************************************************************************)
\* the messages an underlying error can carry
ErrorMessages == OtherErrors \cup EncodeErrors \cup {DecodeError}

\* two requests that went the same way: same path, same query, the same
\* storage calls and transform steps with the same kinds of outcome
SameRun(p, q) ==
    /\ Done(p) /\ Done(q)
    /\ path[p] = path[q] /\ query[p] = query[q]
    /\ calls[p] = calls[q]

\* C14: the response never depends on the message of a backend or transform
\* error: two requests that differ only in those messages get identical
\* responses, no response carries such a message, and every 404, 403, 413
\* and 500 has the generic status text as its body.
C14_OpaqueErrors ==
    /\ \A p \in Reqs : \A i \in 1..Len(resp[p]) :
          /\ resp[p][i].body \notin ErrorMessages
          /\ resp[p][i].status = 404 => resp[p][i].body = "Not Found"
          /\ resp[p][i].status = 403 => resp[p][i].body = "Forbidden"
          /\ resp[p][i].status = 413 => resp[p][i].body = "Request Entity Too Large"
          /\ resp[p][i].status = 500 => resp[p][i].body = "Internal Server Error"
    /\ \A p, q \in Reqs : SameRun(p, q) => resp[p] = resp[q]

\* two requests failed at the same step with different error messages
C14_Witness ==
    \E p, q \in Reqs :
        /\ p # q /\ SameRun(p, q)
        /\ logs[p] # <<>> /\ logs[q] # <<>> /\ logs[p] # logs[q]
        /\ resp[p] = <<Error("Internal Server Error", 500)>>

(***************************************************************************)
(* C15  No retry, no second check                                          *)
(***************************************************************************)
StorageOps == {"check", "download", "upload"}
\* the i-th step of p is a storage call
IsStorageCall(p, i) == calls[p][i].op \in StorageOps
\* the i-th step of p is a storage call that returned an error
StorageCallFailed(p, i) ==
    IsStorageCall(p, i) /\ calls[p][i].res \notin {"true", "false", "ok"}

\* C15: a request makes at most one existence check of the original key, at
\* most one of the resized key, at most one download and at most one upload;
\* a storage call that fails is the request's last step and is answered at
\* once with an error status.
C15_NoRetry ==
    \A p \in Reqs :
        /\ Count(p, "check") <= 2
        /\ CountOn(p, "check", originalKey[p]) <= 1
        /\ resizedKey[p] # NoKey => CountOn(p, "check", resizedKey[p]) <= 1
        /\ Count(p, "download") <= 1
        /\ Count(p, "upload") <= 1
        /\ \A i \in 1..Len(calls[p]) :
              StorageCallFailed(p, i)
              => /\ i = Len(calls[p])
                 /\ Done(p)
                 /\ Len(resp[p]) = 1
                 /\ resp[p][1].status \in {400, 403, 404, 500}

\* a request whose upload failed after its two checks and its download
C15_Witness ==
    \E p \in Reqs :
        /\ Done(p) /\ Count(p, "check") = 2 /\ Count(p, "download") = 1
        /\ Count(p, "upload") = 1 /\ StorageCallFailed(p, Len(calls[p]))

(***************************************************************************)
(* C16  Every request ends with one response                               *)
(***************************************************************************)
InFlight(p) == pc[p] \notin {"idle", "done"}

\* a redirect with a Location, or one of the error statuses with a body
IsFinalResponse(r) ==
    \/ r.status \in 300..399 /\ r.location # <<>>
    \/ r.status \in {400, 403, 404, 413, 500} /\ r.location = <<>> /\ r.body # ""

OneResponse(p) ==
    /\ Done(p) => Len(resp[p]) = 1 /\ IsFinalResponse(resp[p][1])
    /\ ~Done(p) => resp[p] = <<>>

IsRedirect(r) == r.location # <<>>

\* the status with which the handler that is running redirects
RedirectStatus == IF load = DirectLoad THEN StatusFound ELSE StatusSeeOther

Locals(p) ==
    <<pc[p], path[p], query[p], originalKey[p], width[p], height[p], resizedKey[p],
      contentType[p], buf[p], calls[p], resp[p], logs[p], cancelled[p]>>

\* the locals of a slot in which no handler runs
NoLocals == <<"idle", <<>>, <<>>, NoKey, 0, 0, NoKey, "", EmptyBuf, <<>>, <<>>, <<>>, FALSE>>

\* what the request wrote to the bucket: nothing, or one object under one key
StoreUpdate(p) ==
    IF Count(p, "upload") = 1 /\ calls[p][Len(calls[p])].res = "ok"
    THEN <<resizedKey[p], buf[p], contentType[p]>>
    ELSE <<>>

ChecksNow(p) ==
    /\ pc[p] \in {"checkOriginal", "checkResized"}
    /\ Len(calls'[p]) = Len(calls[p]) + 1
    /\ calls'[p][Len(calls'[p])].op = "check"

\* C20: CheckObject answers true for a key that is in the bucket and false,
\* without an error, for a key that is not; it fails only with an error of the
\* backend or the network. The handler answers 404 when the original is
\* reported absent, goes on to the download when the variant is, and answers
\* 500, logging the error, when either check fails.
C20_CheckObject ==
    [][\A p \in Reqs : ChecksNow(p) =>
          LET c == calls'[p][Len(calls'[p])]
              onOriginal == pc[p] = "checkOriginal"
          IN  /\ c.key = IF onOriginal THEN originalKey[p] ELSE resizedKey[p]
              /\ c.res \in {"true", "false", "error"}
              /\ c.res = "true" => Exists(bucket, c.key)
              /\ c.res = "false" => ~Exists(bucket, c.key)
              /\ (c.res = "false" /\ onOriginal) =>
                     /\ pc'[p] = "done"
                     /\ resp'[p] = <<Error("Not Found", StatusNotFound)>>
                     /\ logs'[p] = <<>>
              /\ (c.res = "false" /\ ~onOriginal) =>
                     /\ pc'[p] = "download"
                     /\ resp'[p] = <<>>
              /\ c.res = "error" =>
                     /\ pc'[p] = "done"
                     /\ resp'[p] = <<Error("Internal Server Error", StatusInternalServerError)>>
                     /\ Len(logs'[p]) = 1
                     /\ logs'[p][1] \in OtherErrors]_vars

\* the check of the variant failed with an error of the backend after the
\* check of the original had found it
C20_Witness ==
    \E p \in Reqs :
        /\ Done(p)
        /\ calls[p] = <<Call("check", originalKey[p], "true"),
                        Call("check", resizedKey[p], "error")>>
        /\ logs[p] = <<"connection reset">>
        /\ resp[p] = <<InternalError>>
        /\ ~Exists(bucket, resizedKey[p])

(***************************************************************************)
(* C21  Startup with a missing configuration                               *)
(***************************************************************************)
\* a required variable is not set or empty
Missing(env) == \E k \in EnvKeys : env[k] \in {Unset, ""}

\* the first of the three keys, in the order envvar.New reads them, that is missing
FirstMissing(env) ==
    IF env[bucketNameEnvKey] \in {Unset, ""} THEN bucketNameEnvKey
    ELSE IF env[envKeyFolderOriginal] \in {Unset, ""} THEN envKeyFolderOriginal
    ELSE envKeyFolderResized

\* C21: when the bucket name, the original folder or the resized folder is
\* not set or empty, the process goes from its start to exit status 1 with the
\* error of envvar.New logged: no storage client is created and no request is
\* served; a process that got past the environment has all three values.
C21_FailFast ==
    /\ Missing(boot.env) =>
          /\ boot.pc \in {"start", "exited"}
          /\ ~boot.client
          /\ boot.served = 0
          /\ boot.envVar = NoEnvVar
          /\ boot.pc = "exited" =>
                /\ boot.exit = 1
                /\ boot.logs = <<Required(FirstMissing(boot.env))>>
    /\ boot.pc \in {"newClient", "listen", "serving"} =>
          /\ boot.envVar.BucketName = boot.env[bucketNameEnvKey]
          /\ boot.envVar.FolderOriginal = boot.env[envKeyFolderOriginal]
          /\ boot.envVar.FolderResized = boot.env[envKeyFolderResized]
          /\ \A k \in EnvKeys : boot.env[k] \notin {Unset, ""}

\* the process has exited because the resized folder is set to the empty string
C21_Witness ==
    /\ boot.pc = "exited"
    /\ boot.env[bucketNameEnvKey] = "a"
    /\ boot.env[envKeyFolderOriginal] = "b"
    /\ boot.env[envKeyFolderResized] = ""
    /\ boot.logs = <<Required(envKeyFolderResized)>>

(***************************************************************************)
(* C22  The processed image is saved under the name that is looked up      *)
(***************************************************************************)
\* C22: in Server.ServeHTTP a processed image that was saved was saved under
\* the name looked up for that request, processed/<name>-w<w>-h<h>.<format>
\* with the w and h of the request (0 for one left out).
C22_SaveKeyIsLookupKey ==
    \A p \in Reqs : \A i \in 1..Len(calls[p]) :
        (calls[p][i].op = "save" /\ calls[p][i].res = "ok") =>
            /\ calls[p][i].key = resizedKey[p]
            /\ Exists(bucket, resizedKey[p])
            /\ resizedKey[p] = ProcessedName(splitImageName(path[p]).namePart,
                                             GcsQuery(query[p]).w, GcsQuery(query[p]).h,
                                             splitImageName(path[p]).formatPart)

(***************************************************************************)
(* C23  Upload, then download                                              *)
(***************************************************************************)
\* the i-th operation on the store succeeded and was an op
Succeeded(i, op) == calls[1][i].op = op /\ calls[1][i].res = "ok"

\* the last successful upload to the key of operation i before it, 0 if none
LastUpload(i) ==
    LET ups == {j \in 1..(i - 1) : Succeeded(j, "upload") /\ calls[1][j].key = calls[1][i].key}
    IN  IF ups = {} THEN 0 ELSE CHOOSE j \in ups : \A k \in ups : k <= j

\* every successful download of a key returned the body and the content type
\* of the last successful upload to that key
RoundTrip ==
    \A i \in 1..Len(calls[1]) :
        (Succeeded(i, "download") /\ LastUpload(i) # 0) =>
            /\ calls[1][i].body = calls[1][LastUpload(i)].body
            /\ calls[1][i].contentType = calls[1][LastUpload(i)].contentType

C24_StepOrder ==
    \A p \in Reqs : Done(p) =>
        /\ ~MatchesNameExt(path[p]) =>
              /\ resp[p] = <<Error(errStrInvalidImagePath, StatusBadRequest)>>
              /\ calls[p] = <<>>
        /\ (MatchesNameExt(path[p]) /\ BadParam(query[p])) =>
              /\ calls[p] # <<>>
              /\ calls[p][1].op = "check" /\ calls[p][1].key = OriginalKey(path[p])
              /\ calls[p][1].res = "false" =>
                     resp[p] = <<Error(StatusText(StatusNotFound), StatusNotFound)>>
              /\ calls[p][1].res = "true" =>
                     /\ resp[p][1].status = StatusBadRequest
                     /\ resp[p][1].body \in InvalidQueryMessages
        /\ (resp[p] # <<>> /\ resp[p][1].body \in InvalidQueryMessages) =>
              calls[p] = <<Call("check", OriginalKey(path[p]), "true")>>

\* a.png?h=x was answered 404 from an empty bucket
C24_Witness ==
    \E p \in Reqs :
        /\ Done(p) /\ path[p] = PngPath /\ query[p] = [h |-> <<"x">>]
        /\ bucket = <<>>
        /\ resp[p] = <<Error("Not Found", StatusNotFound)>>

(***************************************************************************)
(* C25  What is logged                                                     *)
(***************************************************************************)
\* C25: a request is logged exactly when it is answered 500, with one entry,
\* and never after its response was written: a request in flight has logged
\* nothing, a finished one has one entry if its status is 500 and none if it
\* is a redirect, 400 (path, query or rejected upload), 403 or 404.
C25_LogsOnlyInternal ==
    /\ [](\A p \in Reqs :
             /\ ~Done(p) => logs[p] = <<>>
             /\ Done(p) =>
                   /\ Len(resp[p]) = 1
                   /\ resp[p][1].status = StatusInternalServerError => Len(logs[p]) = 1
                   /\ resp[p][1].status # StatusInternalServerError => logs[p] = <<>>)
    /\ [][\A p \in Reqs : logs'[p] # logs[p] =>
             \/ logs'[p] = <<>>
             \/ /\ resp[p] = <<>>
                /\ Len(logs'[p]) = Len(logs[p]) + 1
                /\ resp'[p] = <<InternalError>>]_vars

\* of two finished requests one was refused by the store at the download and
\* left no entry, the other failed at the encoder and left one
C25_Witness ==
    \E p, q \in Reqs :
        /\ Done(p) /\ Done(q)
        /\ DownloadFailedWith(p, ErrForbidden) /\ logs[p] = <<>>
        /\ Made(q, Call("encode", NoKey, "error")) /\ Len(logs[q]) = 1

(***************************************************************************)
(* C26  The original goes away between the check and the download          *)
(***************************************************************************)
\* the original was found by the check and the download of it failed with err
LostOriginal(p, err) ==
    /\ Done(p) /\ OriginalFound(p)
    /\ DownloadFailedWith(p, err)

\* C26 (as claimed): when the original disappears or becomes forbidden after
\* its existence check, the request ends with 404 or 403, makes no upload,
\* and the store is left without the resized key.
C26_LostOriginalNoVariant ==
    \A p \in Reqs :
        /\ LostOriginal(p, ErrNotFound) =>
              /\ resp[p] = <<Error("Not Found", StatusNotFound)>>
              /\ Count(p, "upload") = 0
              /\ ~Exists(bucket, resizedKey[p])
        /\ LostOriginal(p, ErrForbidden) =>
              /\ resp[p] = <<Error("Forbidden", StatusForbidden)>>
              /\ Count(p, "upload") = 0
              /\ ~Exists(bucket, resizedKey[p])

\* C26 (corrected): such a request ends with 404 or 403, its download is its
\* last call, it makes no upload and its failing step leaves the store as it
\* is; the resized key is absent from the store when no other request was
\* served at the same time, while a concurrent request for the same variant
\* may have stored it.
C26_LostOriginalNoWrite ==
    /\ [](\A p \in Reqs :
             /\ LostOriginal(p, ErrNotFound) =>
                   /\ resp[p] = <<Error("Not Found", StatusNotFound)>>
                   /\ ~Exists(bucket, originalKey[p])
             /\ LostOriginal(p, ErrForbidden) =>
                   resp[p] = <<Error("Forbidden", StatusForbidden)>>
             /\ (LostOriginal(p, ErrNotFound) \/ LostOriginal(p, ErrForbidden)) =>
                   /\ Count(p, "upload") = 0
                   /\ calls[p][Len(calls[p])].op = "download"
                   /\ logs[p] = <<>>
                   /\ load.slots = {p} => ~Exists(bucket, resizedKey[p]))
    /\ [][\A p \in Reqs :
             (pc[p] = "download" /\ pc'[p] = "done") => bucket' = bucket]_vars

\* the original was deleted after the check had found it: 404, and the bucket
\* is empty
C26_Witness ==
    \E p \in Reqs :
        /\ LostOriginal(p, ErrNotFound)
        /\ deletes = 1
        /\ bucket = <<>>
        /\ resp[p] = <<Error("Not Found", StatusNotFound)>>

(***************************************************************************)
(* C27  What is uploaded                                                   *)
(***************************************************************************)
\* the request got as far as its upload
UploadTried(p) == Count(p, "upload") = 1
\* the format a file extension stands for
FormatOfExtension(ext) == IF ext \in {"jpg", "jpeg"} THEN "jpeg" ELSE ext
\* the extension at the end of a key
Extension(key) == key[Len(key)]

\* the body is an image of the original's format, not empty, and the content
\* type is the one stored with the original
UploadsOriginalsFormat(p) ==
    /\ buf[p] # EmptyBuf
    /\ buf[p].format \in {"jpeg", "png"}
    /\ Exists(bucket, originalKey[p]) =>
          /\ buf[p].format = bucket[originalKey[p]].body.format
          /\ contentType[p] = bucket[originalKey[p]].contentType
    /\ (Done(p) /\ calls[p][Len(calls[p])] = Call("upload", resizedKey[p], "ok")
           /\ Exists(bucket, resizedKey[p])) =>
          /\ bucket[resizedKey[p]].body = buf[p]
          /\ bucket[resizedKey[p]].contentType = contentType[p]

Established(p, key) ==
    \/ Made(p, Call("check", key, "true"))
    \/ Made(p, Call("upload", key, "ok"))

\* C28: a redirect goes to the URL of the original key or of the resized key
\* of the request, and that key was reported present by a check of this
\* request or stored by its own upload; a request with a failed check,
\* download, decode, encode or upload is never redirected.
C28_RedirectEstablished ==
    \A p \in Reqs : \A i \in 1..Len(resp[p]) :
        IsRedirect(resp[p][i]) =>
            /\ AllOK(p)
            /\ \E key \in {originalKey[p], resizedKey[p]} :
                  /\ key # NoKey
                  /\ resp[p][i].location = ObjectURL(key)
                  /\ Established(p, key)
                  /\ calls[p][Len(calls[p])] \in
                        {Call("check", key, "true"), Call("upload", key, "ok")}

\* a request was redirected to a variant it had found, and the variant has
\* been deleted since
C28_Witness ==
    \E p \in Reqs :
        /\ Done(p) /\ ResizedFound(p)
        /\ resp[p] = <<Redirect(ObjectURL(resizedKey[p]), StatusSeeOther)>>
        /\ ~Exists(bucket, resizedKey[p])

(***************************************************************************)
(* C29  The originals are not written                                      *)
(***************************************************************************)
\* the original folder is a folder directly inside the resized folder
DirectlyInside(original, resized) ==
    LET o == Split(original, "/")
        r == Split(resized, "/")
    IN  Len(o) = Len(r) + 1 /\ SubSeq(o, 1, Len(r)) = r

Failed(p) == Done(p) /\ resp[p] # <<>> /\ resp[p][Len(resp[p])].status >= StatusBadRequest

\* the step is the successful upload of request p: it stores one object under
\* the request's resized key and touches no other key
WritesVariant(p) ==
    /\ pc[p] = "upload"
    /\ calls'[p] = Append(calls[p], Call("upload", resizedKey[p], "ok"))
    /\ DOMAIN bucket' = DOMAIN bucket \cup {resizedKey[p]}
    /\ \A k \in DOMAIN bucket \ {resizedKey[p]} : bucket'[k] = bucket[k]

\* C30: a request that ends with an error status has written nothing: the
\* step that answers with an error leaves the bucket as it is (a failed upload
\* creates no object), a request that failed has no successful upload among
\* its calls, and the only step of a handler that changes the bucket is the
\* successful upload, which is answered with a redirect.
C30_ErrorsWriteNothing ==
    /\ [](\A p \in Reqs : Failed(p) => ~\E i \in 1..Len(calls[p]) :
                                           calls[p][i].op = "upload" /\ calls[p][i].res = "ok")
    /\ [][/\ \A p \in Reqs : (~Failed(p) /\ Failed(p)') => bucket' = bucket
          /\ (bucket' # bucket /\ deletes' = deletes) =>
                \E p \in Reqs : WritesVariant(p) /\ ~Failed(p)']_vars

\* an upload failed and the variant it was to store is not in the bucket
C30_Witness ==
    \E p \in Reqs :
        /\ Failed(p)
        /\ Count(p, "upload") = 1
        /\ calls[p][Len(calls[p])].op = "upload"
        /\ ~Exists(bucket, resizedKey[p])
        /\ deletes = 0

(***************************************************************************)
(* C31  The resized key across images                                      *)
(***************************************************************************)
\* C31: two accepted paths that differ, in the name or in the extension, never
\* get the same resized key for any (w, h), names that contain a dot such as
\* a.x.png and a.x.jpeg included.
C31_InjectiveAcrossPaths ==
    \A i, j \in DOMAIN kout :
        (/\ Resized(i) /\ Resized(j)
         /\ kin[i].path # kin[j].path
         /\ kout[i].width = kout[j].width /\ kout[i].height = kout[j].height)
        => kout[i].resizedKey # kout[j].resizedKey

(***************************************************************************)
(* C32  Racing uploads of the same variant                                 *)
(***************************************************************************)
\* the object a request for (pth, w, h) uploads: what the resize and the
\* encode make of the original's bytes, under the original's content type
VariantOf(pth, w, h) ==
    LET src == bucket[OriginalKey(pth)]
    IN  [Object(Encode(Decode(src.body).format, Resize(src.body, w, h)), src.contentType)
            EXCEPT !.madeFor = <<pth, w, h>>]

\* C32: two requests with the same (path, w, h) in flight together, one of
\* which found the resized key not stored, in any interleaving of their
\* checks and uploads and with nothing deleted from the bucket: each of them
\* whose storage calls and transform steps all succeeded is redirected to the
\* URL of the same resized key; when both have finished and one of them
\* succeeded the bucket holds under that key the variant that the upload of
\* a request for that (path, w, h) made from the original; and when both
\* found the key not stored, what it holds is what one of the two uploaded.
C32_BenignRace ==
    \A p, q \in Reqs :
        (/\ p # q /\ Done(p) /\ Done(q) /\ SameRequest(p, q)
         /\ ResizedMissed(p) /\ deletes = 0)
        => LET pq == ParseQuery(query[p])
               key == ResizedKey(path[p], pq.width, pq.height)
           IN  /\ \A r \in {p, q} : AllOK(r) => RedirectsTo(r, key)
               /\ (AllOK(p) \/ AllOK(q)) =>
                     /\ Exists(bucket, key)
                     /\ bucket[key] = VariantOf(path[p], pq.width, pq.height)
                     /\ ResizedMissed(q) =>
                           \E r \in {p, q} :
                               /\ AllOK(r)
                               /\ Made(r, Call("upload", key, "ok"))
                               /\ bucket[key].body = buf[r]
                               /\ bucket[key].contentType = contentType[r]

\* both requests missed and both uploaded; the bucket holds one variant under
\* the key and both were redirected to it
C32_Witness ==
    \E p, q \in Reqs :
        /\ p # q /\ Done(p) /\ Done(q) /\ Concurrent(p, q) /\ deletes = 0
        /\ calls[p] = MissCalls(p) /\ calls[q] = MissCalls(q)
        /\ RedirectsTo(p, resizedKey[q]) /\ RedirectsTo(q, resizedKey[p])
        /\ Exists(bucket, resizedKey[p])
        /\ bucket[resizedKey[p]] = VariantOf(path[q], width[q], height[q])

(***************************************************************************)
(* C33  The parts of the dot-split name                                    *)
(***************************************************************************)
\* the request got as far as the computation of the resized key: its original
\* was found and its query asks for a resize
ReachesResizedKey(p) ==
    /\ Arrived(p) /\ OriginalFound(p)
    /\ ParseQuery(query[p]).err = ""
    /\ ~(ParseQuery(query[p]).width = 0 /\ ParseQuery(query[p]).height = 0)

\* C33: in handler() and in getImageHandler() alike, every request that
\* reaches the computation of the resized key has a name that splits on "."
\* into at least two parts, and no request whose original exists ends in a
\* panic, without a response.
C33_NeverPastTheParts ==
    \A p \in Reqs :
        /\ ReachesResizedKey(p) => HasExtension(path[p])
        /\ (Done(p) /\ OriginalFound(p)) => resp[p] # <<>>

====
